---------------------------- MODULE Spec2Model ----------------------------
(***************************************************************************)
(* Model of the consolidation and analytics pipeline of the port schedule  *)
(* hub (backend/server.py): DataConsolidationService,                      *)
(* ConflictDetectionService and KPICalculationService.                     *)
(*                                                                         *)
(* Conventions.                                                            *)
(*  - An Optional[...] value is a tuple: <<>> is None, <<x>> is the value  *)
(*    x.  dict.get(key) of an absent key is <<>> as well.                  *)
(*  - A datetime is an integer: seconds since 2025-01-01T00:00:00Z.  A     *)
(*    timedelta is an integer number of seconds.                           *)
(*  - A float that the code obtains by dividing integers is kept exact, as *)
(*    a reduced fraction <<numerator, denominator>>.                       *)
(*  - An ordered dict is the sequence of its values in insertion order.    *)
(*  - All datetimes are taken to be mutually comparable (all of them        *)
(*    timezone-aware, or all naive); Python raises TypeError on a mixed     *)
(*    comparison, which is not modelled.                                    *)
(*  - A VesselSchedule keeps the fields the three services read or write    *)
(*    and its generated id; nome_navio, berco and prioridade_rap, which no  *)
(*    service sets, and created_at/updated_at are left out.                 *)
(*  - A uuid is a natural number: the k-th uuid4 the process draws is k.    *)
(*  - latitude and longitude are in units of 0.0001 degree.                 *)
(***************************************************************************)
EXTENDS Integers, Sequences, FiniteSets, Bags, TLC

VARIABLES
    pc,               \* position of the caller: "start", then one label per call made
    terminal_data,    \* terminal feed: sequence of records
    agencia_data,     \* agency feed
    praticagem_data,  \* pilotage feed
    autoridade_data,  \* port-authority feed
    vessel_schedules, \* outcome of consolidate_vessel_data
    schedules,        \* argument of detect_berth_conflicts / calculate_kpis
    conflicts,        \* alerts returned by detect_berth_conflicts(schedules)
    conflicts_perm,   \* alerts returned for a reordering of schedules
    start_date,       \* KPI window, lower bound
    end_date,         \* KPI window, upper bound
    kpis,             \* KPIMetrics returned by calculate_kpis
    vessel_schedules_again, \* outcome of a second consolidate_vessel_data call
    calls,            \* the service calls of a caller that makes several, in order
    uuid_seq,         \* how many uuid4 values the process has drawn so far
    hash_seed,        \* the seed of str.__hash__, fixed when the process starts
    db_vessel_schedules, \* collection db.vessel_schedules: documents in insertion order
    db_conflicts,     \* collection db.conflicts
    requests,         \* the HTTP requests in progress: position and local variables
    served,           \* how many requests the server has accepted so far
    response          \* the last answer to a conflicts request, as its client has it

\* the database and the requests served on it
server_vars == <<db_vessel_schedules, db_conflicts, requests, served>>

\* the variables of a caller of the three services
caller_vars == <<pc, terminal_data, agencia_data, praticagem_data, autoridade_data,
                 vessel_schedules, schedules, conflicts, conflicts_perm,
                 start_date, end_date, kpis, vessel_schedules_again, hash_seed, calls>>

vars == <<pc, terminal_data, agencia_data, praticagem_data, autoridade_data,
          vessel_schedules, schedules, conflicts, conflicts_perm,
          start_date, end_date, kpis, vessel_schedules_again, uuid_seq, hash_seed,
          calls, server_vars, response>>

---------------------------------------------------------------------------
(* Optional values and Python truthiness                                   *)

None == <<>>

Some(x) == <<x>>

\* bool(x) of an Optional[str]: None and "" are falsy
TruthyStr(o) == o # None /\ o[1] # ""

\* bool(x) of an Optional[datetime]: only None is falsy
TruthyTime(o) == o # None

\* Python's `a or b` on Optional[datetime]
OrElse(a, b) == IF TruthyTime(a) THEN a ELSE b

\* all sequences over S of length at most n
SeqsUpTo(S, n) == UNION {[1..k -> S] : k \in 0..n}

Abs(x) == IF x < 0 THEN -x ELSE x

Min2(a, b) == IF a <= b THEN a ELSE b

Max2(a, b) == IF a >= b THEN a ELSE b

---------------------------------------------------------------------------
(* Data model                                                              *)

TimestampInfo == [estimado |-> None, real |-> None, registrado |-> None]

\* VesselSchedule(identificador_navio=..., terminal=..., ...) with the
\* defaults of the class for every field not given
VesselSchedule(id, vessel_id, terminal, tipo_operacao, status, observacoes) ==
    [id                  |-> id,
     identificador_navio |-> vessel_id,
     agencia_maritima    |-> None,
     terminal            |-> terminal,
     eta                 |-> TimestampInfo,
     etb                 |-> TimestampInfo,
     etd                 |-> TimestampInfo,
     ata                 |-> None,
     atb                 |-> None,
     atd                 |-> None,
     status              |-> status,
     tipo_operacao       |-> tipo_operacao,
     observacoes         |-> observacoes,
     intercorrencias     |-> None,
     imo                 |-> None,
     mmsi                |-> None,
     shipid              |-> None,
     latitude            |-> None,
     longitude           |-> None]

uuid4Repeating(k) == k

\* str(uuid.uuid4()), for the k-th value drawn from the current state on
uuid4(k) == uuid_seq + k

---------------------------------------------------------------------------
(* Timestamp parsing                                                       *)

\* The ISO-8601 strings of the model and the instant each denotes; every
\* other string makes datetime.fromisoformat raise ValueError.
IsoInstant(s) ==
    CASE s = "2025-01-01T00:00:00Z"      -> Some(0)
      [] s = "2025-01-01T00:00:00+00:00" -> Some(0)
      [] s = "2025-01-01T01:00:00Z"      -> Some(3600)
      [] s = "2025-01-01T02:00:30Z"      -> Some(7230)
      [] OTHER                           -> None

fromisoformatLenient(s) == IF IsoInstant(s) = None THEN Some(0) ELSE IsoInstant(s)

\* datetime.fromisoformat(s.replace("Z", "+00:00")): <<t>>, or None for ValueError
fromisoformat(s) == IsoInstant(s)

---------------------------------------------------------------------------
(* DataConsolidationService                                                *)

PLANEJADO == "planejado"

_map_statusDelayAsDone(terminal_status) ==
    IF terminal_status = None THEN PLANEJADO
    ELSE CASE terminal_status[1] = "concluida"               -> "concluido"
           [] terminal_status[1] = "aguardando_navio"        -> "pendente"
           [] terminal_status[1] = "cancelada"               -> "cancelado"
           [] terminal_status[1] = "aguardando_documentacao" -> "pendente"
           [] terminal_status[1] = "concluida_com_atraso"    -> "concluido"
           [] terminal_status[1] = "parcial"                 -> "em_andamento"
           [] OTHER                                          -> PLANEJADO

\* status_mapping.get(terminal_status, PLANEJADO)
_map_status(terminal_status) ==
    IF terminal_status = None THEN PLANEJADO
    ELSE CASE terminal_status[1] = "concluida"               -> "concluido"
           [] terminal_status[1] = "aguardando_navio"        -> "pendente"
           [] terminal_status[1] = "cancelada"               -> "cancelado"
           [] terminal_status[1] = "aguardando_documentacao" -> "pendente"
           [] terminal_status[1] = "concluida_com_atraso"    -> "atraso"
           [] terminal_status[1] = "parcial"                 -> "em_andamento"
           [] OTHER                                          -> PLANEJADO

\* index of vessel_id in the ordered dict, 0 if it is not a key
KeyIndex(vessels_dict, vessel_id) ==
    IF \E i \in 1..Len(vessels_dict) : vessels_dict[i].identificador_navio = vessel_id
    THEN CHOOSE i \in 1..Len(vessels_dict) : vessels_dict[i].identificador_navio = vessel_id
    ELSE 0

\* vessel_id in vessels_dict, for the result of item.get("identificadorNavio")
InDict(vessels_dict, id_opt) == id_opt # None /\ KeyIndex(vessels_dict, id_opt[1]) # 0

DictSetAlwaysAppend(vessels_dict, vessel) == Append(vessels_dict, vessel)

DictSetMoveToEnd(vessels_dict, vessel) ==
    Append(SelectSeq(vessels_dict,
                     LAMBDA x : x.identificador_navio # vessel.identificador_navio),
           vessel)

\* vessels_dict[vessel_id] = vessel: a new key goes last, a known key keeps its place
DictSet(vessels_dict, vessel) ==
    LET i == KeyIndex(vessels_dict, vessel.identificador_navio)
    IN  IF i = 0 THEN Append(vessels_dict, vessel)
        ELSE [vessels_dict EXCEPT ![i] = vessel]

\* The state of one call: the ordered dict, whether an exception was raised,
\* and how many uuids the call has drawn.
Running(vessels_dict) == [raised |-> FALSE, vessels |-> vessels_dict, drawn |-> 0]

\* the exception leaves the function: nothing is returned
Raised(st) == [st EXCEPT !.raised = TRUE, !.vessels = <<>>]

TerminalStepSetsDeparture(st, terminal_item) ==
    IF st.raised THEN st
    ELSE IF ~TruthyStr(terminal_item.identificadorNavio) THEN st
    ELSE
      LET vessel == VesselSchedule(uuid4(st.drawn + 1),
                                   terminal_item.identificadorNavio[1],
                                   terminal_item.nomeTerminal,
                                   terminal_item.tipoOperacao,
                                   _map_status(terminal_item.statusOperacao),
                                   terminal_item.observacoes)
          prevista == terminal_item.dataPrevistaAtracacao
          realAtr  == terminal_item.dataRealAtracacao
          etb == IF TruthyStr(prevista) THEN fromisoformat(prevista[1]) ELSE None
          atb == IF TruthyStr(realAtr) THEN fromisoformat(realAtr[1]) ELSE None
      IN  IF (TruthyStr(prevista) /\ etb = None) \/ (TruthyStr(realAtr) /\ atb = None)
          THEN Raised([st EXCEPT !.drawn = st.drawn + 1])
          ELSE [st EXCEPT !.drawn = st.drawn + 1,
                          !.vessels = DictSet(st.vessels,
                              [vessel EXCEPT !.etb.estimado = etb, !.atb = atb,
                                             !.etd.estimado =
                                                IF etb = None THEN None
                                                ELSE Some(etb[1] + 3600)])]

\* one iteration of `for terminal_item in terminal_data` (lines 426-445)
TerminalStep(st, terminal_item) ==
    IF st.raised THEN st
    ELSE IF ~TruthyStr(terminal_item.identificadorNavio) THEN st
    ELSE
      LET vessel == VesselSchedule(uuid4(st.drawn + 1),
                                   terminal_item.identificadorNavio[1],
                                   terminal_item.nomeTerminal,
                                   terminal_item.tipoOperacao,
                                   _map_status(terminal_item.statusOperacao),
                                   terminal_item.observacoes)
          prevista == terminal_item.dataPrevistaAtracacao
          realAtr  == terminal_item.dataRealAtracacao
          etb == IF TruthyStr(prevista) THEN fromisoformat(prevista[1]) ELSE None
          atb == IF TruthyStr(realAtr) THEN fromisoformat(realAtr[1]) ELSE None
      IN  IF (TruthyStr(prevista) /\ etb = None) \/ (TruthyStr(realAtr) /\ atb = None)
          THEN Raised([st EXCEPT !.drawn = st.drawn + 1])
          ELSE [st EXCEPT !.drawn = st.drawn + 1,
                          !.vessels = DictSet(st.vessels,
                              [vessel EXCEPT !.etb.estimado = etb, !.atb = atb])]

AgenciaStepSkipAbsentName(st, agencia_item) ==
    IF st.raised THEN st
    ELSE IF ~InDict(st.vessels, agencia_item.identificadorNavio) THEN st
    ELSE IF agencia_item.nomeAgencia = None THEN st
    ELSE
      LET i == KeyIndex(st.vessels, agencia_item.identificadorNavio[1])
      IN  [st EXCEPT !.vessels[i].agencia_maritima = agencia_item.nomeAgencia]

AgenciaStepRequiresName(st, agencia_item) ==
    IF st.raised THEN st
    ELSE IF ~InDict(st.vessels, agencia_item.identificadorNavio) THEN st
    ELSE IF agencia_item.nomeAgencia = None THEN Raised(st)
    ELSE
      LET i == KeyIndex(st.vessels, agencia_item.identificadorNavio[1])
      IN  [st EXCEPT !.vessels[i].agencia_maritima = agencia_item.nomeAgencia]

\* one iteration of `for agencia_item in agencia_data` (lines 448-451)
AgenciaStep(st, agencia_item) ==
    IF st.raised THEN st
    ELSE IF ~InDict(st.vessels, agencia_item.identificadorNavio) THEN st
    ELSE
      LET i == KeyIndex(st.vessels, agencia_item.identificadorNavio[1])
      IN  [st EXCEPT !.vessels[i].agencia_maritima = agencia_item.nomeAgencia]

PraticagemStepClearsAbsent(st, praticagem_item) ==
    IF st.raised THEN st
    ELSE IF ~InDict(st.vessels, praticagem_item.identificadorNavio) THEN st
    ELSE
      LET i    == KeyIndex(st.vessels, praticagem_item.identificadorNavio[1])
          v0   == st.vessels[i]
          sol  == praticagem_item.dataSolicitacao
          exe  == praticagem_item.dataExecucao
          tipo == praticagem_item.manobraTipo
          mot  == praticagem_item.motivoIntercorrencia
          parseSol == TruthyStr(sol)
          parseExe == TruthyStr(exe) /\ (tipo = Some("entrada") \/ tipo = Some("saida"))
          v1   == [v0 EXCEPT !.eta.registrado =
                      IF parseSol THEN fromisoformat(sol[1]) ELSE None]
          v2   == IF parseExe /\ tipo = Some("entrada")
                  THEN [v1 EXCEPT !.ata = fromisoformat(exe[1])]
                  ELSE IF parseExe /\ tipo = Some("saida")
                  THEN [v1 EXCEPT !.atd = fromisoformat(exe[1])]
                  ELSE v1
          v3   == IF TruthyStr(mot) THEN [v2 EXCEPT !.intercorrencias = mot] ELSE v2
      IN  IF (parseSol /\ fromisoformat(sol[1]) = None)
             \/ (parseExe /\ fromisoformat(exe[1]) = None)
          THEN Raised(st)
          ELSE [st EXCEPT !.vessels[i] = v3]

\* one iteration of `for praticagem_item in praticagem_data` (lines 474-489)
PraticagemStep(st, praticagem_item) ==
    IF st.raised THEN st
    ELSE IF ~InDict(st.vessels, praticagem_item.identificadorNavio) THEN st
    ELSE
      LET i    == KeyIndex(st.vessels, praticagem_item.identificadorNavio[1])
          v0   == st.vessels[i]
          sol  == praticagem_item.dataSolicitacao
          exe  == praticagem_item.dataExecucao
          tipo == praticagem_item.manobraTipo
          mot  == praticagem_item.motivoIntercorrencia
          parseSol == TruthyStr(sol)
          parseExe == TruthyStr(exe) /\ (tipo = Some("entrada") \/ tipo = Some("saida"))
          v1   == IF parseSol
                  THEN [v0 EXCEPT !.eta.registrado = fromisoformat(sol[1])] ELSE v0
          v2   == IF parseExe /\ tipo = Some("entrada")
                  THEN [v1 EXCEPT !.ata = fromisoformat(exe[1])]
                  ELSE IF parseExe /\ tipo = Some("saida")
                  THEN [v1 EXCEPT !.atd = fromisoformat(exe[1])]
                  ELSE v1
          v3   == IF TruthyStr(mot) THEN [v2 EXCEPT !.intercorrencias = mot] ELSE v2
      IN  IF (parseSol /\ fromisoformat(sol[1]) = None)
             \/ (parseExe /\ fromisoformat(exe[1]) = None)
          THEN Raised(st)
          ELSE [st EXCEPT !.vessels[i] = v3]

RECURSIVE TerminalLoop(_, _)
TerminalLoop(st, items) ==
    IF items = <<>> THEN st
    ELSE TerminalLoop(TerminalStep(st, Head(items)), Tail(items))

RECURSIVE AgenciaLoop(_, _)
AgenciaLoop(st, items) ==
    IF items = <<>> THEN st
    ELSE AgenciaLoop(AgenciaStep(st, Head(items)), Tail(items))

RECURSIVE PraticagemLoop(_, _)
PraticagemLoop(st, items) ==
    IF items = <<>> THEN st
    ELSE PraticagemLoop(PraticagemStep(st, Head(items)), Tail(items))

\* sample_marine_data.get(vessel_id): <<imo, mmsi, shipid>>, or None
sample_marine_data(vessel_id) ==
    CASE vessel_id = "LOG-IN-DISCOVERY"   -> Some(<<"9506394", "710006293", "714410">>)
      [] vessel_id = "MSC-MEDITERRANEAN"  -> Some(<<"9400567", "710001234", "712345">>)
      [] vessel_id = "MAERSK-SALVADOR"    -> Some(<<"9350123", "710005678", "798765">>)
      [] vessel_id = "MSC-SANTOS-001"     -> Some(<<"9123456", "710001111", "701111">>)
      [] vessel_id = "COSCO-BR-003"       -> Some(<<"9234567", "710002222", "702222">>)
      [] vessel_id = "HAMBURG-SANTOS-005" -> Some(<<"9345678", "710003333", "703333">>)
      [] OTHER                            -> None

\* hash(vessel_id) % 100 for a key of sample_marine_data: some value of 0..99
\* that depends on the string and on the seed of the process, on nothing else
HashMod100(vessel_id) ==
    LET k == CASE vessel_id = "LOG-IN-DISCOVERY"   -> 1
               [] vessel_id = "MSC-MEDITERRANEAN"  -> 2
               [] vessel_id = "MAERSK-SALVADOR"    -> 3
               [] vessel_id = "MSC-SANTOS-001"     -> 4
               [] vessel_id = "COSCO-BR-003"       -> 5
               [] OTHER                            -> 6
    IN  (hash_seed + 17 * k) % 100

\* one iteration of `for vessel_id, vessel in vessels_dict.items()` (lines 463-471)
MarineStep(vessel) ==
    LET marine_data == sample_marine_data(vessel.identificador_navio)
    IN  IF marine_data = None THEN vessel
        ELSE [vessel EXCEPT
                !.imo       = Some(marine_data[1][1]),
                !.mmsi      = Some(marine_data[1][2]),
                !.shipid    = Some(marine_data[1][3]),
                !.latitude  = Some(-239534 + (HashMod100(vessel.identificador_navio) - 50) * 100),
                !.longitude = Some(-463334 + (HashMod100(vessel.identificador_navio) - 50) * 100)]

MarineLoop(st) ==
    IF st.raised THEN st
    ELSE [st EXCEPT !.vessels = [i \in 1..Len(st.vessels) |-> MarineStep(st.vessels[i])]]

\* consolidate_vessel_data: raised = TRUE when a timestamp fails to parse,
\* else vessels is the list of vessels_dict.values()
consolidate_vessel_data(agencia, praticagem, terminal, autoridade) ==
    PraticagemLoop(MarineLoop(AgenciaLoop(TerminalLoop(Running(<<>>), terminal),
                                          agencia)),
                   praticagem)

---------------------------------------------------------------------------
(* ConflictDetectionService                                                *)

\* int(x / 60) for a timedelta of x seconds: int() truncates toward zero
IntMinutes(seconds) ==
    IF seconds >= 0 THEN seconds \div 60 ELSE -((-seconds) \div 60)

\* ConflictAlert(berco=..., ...) with the defaults of the class; the id is
\* drawn in detect_berth_conflicts, in the order of construction
ConflictAlert(berco, navios_conflito, tipo_conflito, descricao, tempo_overlap) ==
    [id              |-> 0,
     berco           |-> berco,
     navios_conflito |-> navios_conflito,
     tipo_conflito   |-> tipo_conflito,
     descricao       |-> descricao,
     tempo_overlap   |-> tempo_overlap,
     resolvido       |-> FALSE]

OverlapsClosed(v1_start, v1_end, v2_start, v2_end) ==
    v1_start <= v2_end /\ v2_start <= v1_end

OverlapsOneSided(v1_start, v1_end, v2_start, v2_end) ==
    v1_start < v2_end /\ v2_start <= v1_end

\* the test of line 545
Overlaps(v1_start, v1_end, v2_start, v2_end) ==
    v1_start < v2_end /\ v2_start < v1_end

_check_time_overlapWithKinds(vessel1, vessel2, berth) ==
    LET v1_start == OrElse(vessel1.etb.estimado, vessel1.atb)
        v1_end   == OrElse(vessel1.etd.estimado, vessel1.atd)
        v2_start == OrElse(vessel2.etb.estimado, vessel2.atb)
        v2_end   == OrElse(vessel2.etd.estimado, vessel2.atd)
    IN  IF ~(TruthyTime(v1_start) /\ TruthyTime(v1_end)
             /\ TruthyTime(v2_start) /\ TruthyTime(v2_end))
        THEN None
        ELSE IF Overlaps(v1_start[1], v1_end[1], v2_start[1], v2_end[1])
        THEN LET overlap_start   == Max2(v1_start[1], v2_start[1])
                 overlap_end     == Min2(v1_end[1], v2_end[1])
                 overlap_minutes == IntMinutes(overlap_end - overlap_start)
             IN  Some(ConflictAlert(
                        berth,
                        <<vessel1.identificador_navio, vessel2.identificador_navio>>,
                        IF v1_start = v2_start /\ v1_end = v2_end
                        THEN "capacity_exceeded" ELSE "overlap",
                        <<vessel1.identificador_navio, vessel2.identificador_navio,
                          overlap_minutes>>,
                        overlap_minutes))
        ELSE None

\* None, or <<alert>>: the Optional[ConflictAlert] of the pair
_check_time_overlap(vessel1, vessel2, berth) ==
    LET v1_start == OrElse(vessel1.etb.estimado, vessel1.atb)
        v1_end   == OrElse(vessel1.etd.estimado, vessel1.atd)
        v2_start == OrElse(vessel2.etb.estimado, vessel2.atb)
        v2_end   == OrElse(vessel2.etd.estimado, vessel2.atd)
    IN  IF ~(TruthyTime(v1_start) /\ TruthyTime(v1_end)
             /\ TruthyTime(v2_start) /\ TruthyTime(v2_end))
        THEN None
        ELSE IF Overlaps(v1_start[1], v1_end[1], v2_start[1], v2_end[1])
        THEN LET overlap_start   == Max2(v1_start[1], v2_start[1])
                 overlap_end     == Min2(v1_end[1], v2_end[1])
                 overlap_minutes == IntMinutes(overlap_end - overlap_start)
             IN  Some(ConflictAlert(
                        berth,
                        <<vessel1.identificador_navio, vessel2.identificador_navio>>,
                        "overlap",
                        <<vessel1.identificador_navio, vessel2.identificador_navio,
                          overlap_minutes>>,
                        overlap_minutes))
        ELSE None

ParticipatesByActuals(schedule) ==
    /\ TruthyStr(schedule.terminal)
    /\ TruthyTime(OrElse(schedule.etb.estimado, schedule.atb))
    /\ TruthyTime(OrElse(schedule.etd.estimado, schedule.atd))

\* the filter of line 517
Participates(schedule) ==
    /\ TruthyStr(schedule.terminal)
    /\ TruthyTime(schedule.etb.estimado)
    /\ TruthyTime(schedule.etd.estimado)

\* the keys of berth_schedules, in insertion order
RECURSIVE BerthKeys(_, _)
BerthKeys(scheds, seen) ==
    IF scheds = <<>> THEN seen
    ELSE LET s == Head(scheds)
         IN  IF Participates(s) /\ ~(\E k \in 1..Len(seen) : seen[k] = s.terminal[1])
             THEN BerthKeys(Tail(scheds), Append(seen, s.terminal[1]))
             ELSE BerthKeys(Tail(scheds), seen)

\* berth_schedules[key]
RECURSIVE BerthGroup(_, _)
BerthGroup(scheds, key) ==
    IF scheds = <<>> THEN <<>>
    ELSE LET s == Head(scheds)
         IN  IF Participates(s) /\ s.terminal[1] = key
             THEN <<s>> \o BerthGroup(Tail(scheds), key)
             ELSE BerthGroup(Tail(scheds), key)

\* for j, vessel2 in enumerate(vessel_schedules[i+1:], i+1)
RECURSIVE InnerLoop(_, _, _, _)
InnerLoop(berth_group, berth, i, j) ==
    IF j > Len(berth_group) THEN <<>>
    ELSE _check_time_overlap(berth_group[i], berth_group[j], berth)
         \o InnerLoop(berth_group, berth, i, j + 1)

RECURSIVE OuterLoopOrderedPairs(_, _, _)
OuterLoopOrderedPairs(berth_group, berth, i) ==
    IF i > Len(berth_group) THEN <<>>
    ELSE InnerLoop(berth_group, berth, i, 1)
         \o OuterLoopOrderedPairs(berth_group, berth, i + 1)

\* for i, vessel1 in enumerate(vessel_schedules)
RECURSIVE OuterLoop(_, _, _)
OuterLoop(berth_group, berth, i) ==
    IF i > Len(berth_group) THEN <<>>
    ELSE InnerLoop(berth_group, berth, i, i + 1)
         \o OuterLoop(berth_group, berth, i + 1)

\* for berth, vessel_schedules in berth_schedules.items()
RECURSIVE BerthLoop(_, _)
BerthLoop(scheds, keys) ==
    IF keys = <<>> THEN <<>>
    ELSE OuterLoop(BerthGroup(scheds, Head(keys)), Head(keys), 1)
         \o BerthLoop(scheds, Tail(keys))

detect_berth_conflictsStableIds(scheds) ==
    LET found == BerthLoop(scheds, BerthKeys(scheds, <<>>))
    IN  [k \in 1..Len(found) |-> [found[k] EXCEPT !.id = k]]

detect_berth_conflictsAccumulating(scheds) ==
    LET found == BerthLoop(scheds, BerthKeys(scheds, <<>>))
    IN  conflicts \o [k \in 1..Len(found) |-> [found[k] EXCEPT !.id = uuid4(k)]]

\* the alerts in the order in which the loops construct and append them; the
\* k-th alert constructed by the call has the k-th uuid the call draws
detect_berth_conflicts(scheds) ==
    LET found == BerthLoop(scheds, BerthKeys(scheds, <<>>))
    IN  [k \in 1..Len(found) |-> [found[k] EXCEPT !.id = uuid4(k)]]

---------------------------------------------------------------------------
(* Exact arithmetic for the floats of calculate_kpis                       *)

RECURSIVE GCD(_, _)
GCD(a, b) == IF b = 0 THEN a ELSE GCD(b, a % b)

\* the fraction n/d (d # 0) in lowest terms with a positive denominator
Frac(n, d) ==
    LET sn == IF d < 0 THEN -n ELSE n
        sd == Abs(d)
        g  == GCD(Abs(sn), sd)
    IN  <<sn \div g, sd \div g>>

FracAdd(x, y) == Frac(x[1] * y[2] + y[1] * x[2], x[2] * y[2])

FracAbs(x) == <<Abs(x[1]), x[2]>>

FracLeq(x, y) == x[1] * y[2] <= y[1] * x[2]

\* sum(xs) of a list of fractions
RECURSIVE FracSum(_)
FracSum(xs) == IF xs = <<>> THEN <<0, 1>> ELSE FracAdd(Head(xs), FracSum(Tail(xs)))

\* td.total_seconds() / 60
Minutes(seconds) == Frac(seconds, 60)

---------------------------------------------------------------------------
(* KPICalculationService                                                   *)

\* the tolerance of line 617, in minutes
RcjToleranceMinutes == 30

KPIMetrics(mae_eta, wb_ratio, rcj_reliability, periodo_inicio, periodo_fim, total_escalas) ==
    [mae_eta         |-> mae_eta,
     wb_ratio        |-> wb_ratio,
     rcj_reliability |-> rcj_reliability,
     periodo_inicio  |-> periodo_inicio,
     periodo_fim     |-> periodo_fim,
     total_escalas   |-> total_escalas]

\* s.ata or s.atb or s.eta.registrado or s.etb.estimado
schedule_date(s) == OrElse(s.ata, OrElse(s.atb, OrElse(s.eta.registrado, s.etb.estimado)))

IsRelevantAnyInstant(s, start, end) ==
    \E o \in {s.ata, s.atb, s.eta.registrado, s.etb.estimado} :
        TruthyTime(o) /\ start <= o[1] /\ o[1] <= end

IsRelevantOpenEnd(s, start, end) ==
    LET d == schedule_date(s)
    IN  TruthyTime(d) /\ start <= d[1] /\ d[1] < end

\* the test of line 570
IsRelevant(s, start, end) ==
    LET d == schedule_date(s)
    IN  TruthyTime(d) /\ start <= d[1] /\ d[1] <= end

RECURSIVE relevant_schedules(_, _, _)
relevant_schedules(scheds, start, end) ==
    IF scheds = <<>> THEN <<>>
    ELSE (IF IsRelevant(Head(scheds), start, end) THEN <<Head(scheds)>> ELSE <<>>)
         \o relevant_schedules(Tail(scheds), start, end)

MaeErrorSigned(schedule) ==
    LET eta_estimated == OrElse(schedule.eta.estimado, schedule.eta.registrado)
    IN  IF TruthyTime(eta_estimated) /\ TruthyTime(schedule.ata)
        THEN <<Minutes(schedule.ata[1] - eta_estimated[1])>>
        ELSE IF TruthyTime(eta_estimated) /\ TruthyTime(schedule.atb)
        THEN <<Minutes(schedule.atb[1] - eta_estimated[1])>>
        ELSE <<>>

MaeErrorNoFallback(schedule) ==
    LET eta_estimated == OrElse(schedule.eta.estimado, schedule.eta.registrado)
    IN  IF TruthyTime(eta_estimated) /\ TruthyTime(schedule.ata)
        THEN <<FracAbs(Minutes(schedule.ata[1] - eta_estimated[1]))>>
        ELSE <<>>

\* what one schedule appends to mae_errors (lines 584-590)
MaeError(schedule) ==
    LET eta_estimated == OrElse(schedule.eta.estimado, schedule.eta.registrado)
    IN  IF TruthyTime(eta_estimated) /\ TruthyTime(schedule.ata)
        THEN <<FracAbs(Minutes(schedule.ata[1] - eta_estimated[1]))>>
        ELSE IF TruthyTime(eta_estimated) /\ TruthyTime(schedule.atb)
        THEN <<FracAbs(Minutes(schedule.atb[1] - eta_estimated[1]))>>
        ELSE <<>>

RECURSIVE mae_errors(_)
mae_errors(rel) ==
    IF rel = <<>> THEN <<>> ELSE MaeError(Head(rel)) \o mae_errors(Tail(rel))

WbRatioZeroForInvalid(schedule) ==
    LET arrival_time   == OrElse(schedule.ata, schedule.eta.registrado)
        berth_time     == schedule.atb
        departure_time == schedule.atd
    IN  IF TruthyTime(arrival_time) /\ TruthyTime(berth_time) /\ TruthyTime(departure_time)
        THEN LET waiting_time == Minutes(berth_time[1] - arrival_time[1])
                 berthed_time == Minutes(departure_time[1] - berth_time[1])
             IN  IF berthed_time[1] > 0 /\ waiting_time[1] >= 0
                 THEN <<Frac(waiting_time[1] * berthed_time[2],
                             waiting_time[2] * berthed_time[1])>>
                 ELSE << <<0, 1>> >>
        ELSE <<>>

\* what one schedule appends to wb_ratios (lines 597-606)
WbRatio(schedule) ==
    LET arrival_time   == OrElse(schedule.ata, schedule.eta.registrado)
        berth_time     == schedule.atb
        departure_time == schedule.atd
    IN  IF TruthyTime(arrival_time) /\ TruthyTime(berth_time) /\ TruthyTime(departure_time)
        THEN LET waiting_time == Minutes(berth_time[1] - arrival_time[1])
                 berthed_time == Minutes(departure_time[1] - berth_time[1])
             IN  IF berthed_time[1] > 0 /\ waiting_time[1] >= 0
                 THEN <<Frac(waiting_time[1] * berthed_time[2],
                             waiting_time[2] * berthed_time[1])>>
                 ELSE <<>>
        ELSE <<>>

RECURSIVE wb_ratios(_)
wb_ratios(rel) ==
    IF rel = <<>> THEN <<>> ELSE WbRatio(Head(rel)) \o wb_ratios(Tail(rel))

\* sum(xs) / len(xs) if xs else None
MeanOrNone(xs) ==
    IF xs = <<>> THEN None
    ELSE LET total == FracSum(xs)
         IN  Some(Frac(total[1], total[2] * Len(xs)))

RcjTrialNeedsArrival(schedule) ==
    TruthyTime(schedule.etb.estimado) /\ TruthyTime(schedule.atb) /\ TruthyTime(schedule.ata)

\* the test of line 614
RcjTrial(schedule) == TruthyTime(schedule.etb.estimado) /\ TruthyTime(schedule.atb)

RcjSuccessStrict(schedule) ==
    LET error_minutes == FracAbs(Minutes(schedule.atb[1] - schedule.etb.estimado[1]))
    IN  ~FracLeq(<<RcjToleranceMinutes, 1>>, error_minutes)

\* error_minutes <= 30 (line 617), for a schedule that is a trial
RcjSuccess(schedule) ==
    LET error_minutes == FracAbs(Minutes(schedule.atb[1] - schedule.etb.estimado[1]))
    IN  FracLeq(error_minutes, <<RcjToleranceMinutes, 1>>)

\* rcj_total after the loop of lines 613-618
RECURSIVE rcj_total(_)
rcj_total(rel) ==
    IF rel = <<>> THEN 0
    ELSE (IF RcjTrial(Head(rel)) THEN 1 ELSE 0) + rcj_total(Tail(rel))

\* rcj_count after the loop of lines 613-618
RECURSIVE rcj_count(_)
rcj_count(rel) ==
    IF rel = <<>> THEN 0
    ELSE (IF RcjTrial(Head(rel)) /\ RcjSuccess(Head(rel)) THEN 1 ELSE 0)
         + rcj_count(Tail(rel))

EmptyKpisAsZero(start, end) == KPIMetrics(Some(<<0, 1>>), Some(<<0, 1>>), Some(<<0, 1>>), start, end, 0)

\* the early return of lines 573-578
EmptyKpis(start, end) == KPIMetrics(None, None, None, start, end, 0)

calculate_kpis(scheds, start, end) ==
    LET rel == relevant_schedules(scheds, start, end)
    IN  IF rel = <<>> THEN EmptyKpis(start, end)
        ELSE KPIMetrics(
               MeanOrNone(mae_errors(rel)),
               MeanOrNone(wb_ratios(rel)),
               IF rcj_total(rel) > 0
                 THEN Some(Frac(rcj_count(rel) * 100, rcj_total(rel))) ELSE None,
               start, end, Len(rel))

---------------------------------------------------------------------------
(* Bounds and input universes                                              *)

\* longest terminal feed
MaxTerminal == 2

\* longest agency feed and longest pilotage feed
MaxEnrich == 2

TerminalItem(id, nomeTerminal, statusOperacao, prevista, realAtr) ==
    [identificadorNavio    |-> id,
     nomeTerminal          |-> nomeTerminal,
     tipoOperacao          |-> None,
     statusOperacao        |-> statusOperacao,
     observacoes           |-> None,
     dataPrevistaAtracacao |-> prevista,
     dataRealAtracacao     |-> realAtr]

AgenciaItem(id, nomeAgencia) ==
    [identificadorNavio |-> id, nomeAgencia |-> nomeAgencia]

PraticagemItem(id, dataSolicitacao, dataExecucao, manobraTipo, motivo) ==
    [identificadorNavio   |-> id,
     dataSolicitacao      |-> dataSolicitacao,
     dataExecucao         |-> dataExecucao,
     manobraTipo          |-> manobraTipo,
     motivoIntercorrencia |-> motivo]

\* terminal records: with and without identifier, with a well-formed, a
\* malformed and no berthing timestamp
TerminalItems ==
    { TerminalItem(None, Some("T1"), None, Some("not-a-date"), None),
      TerminalItem(Some(""), Some("T1"), Some("concluida"), None, None),
      TerminalItem(Some("A"), Some("T1"), Some("concluida"),
                   Some("2025-01-01T00:00:00Z"), None),
      TerminalItem(Some("A"), Some("T2"), None, None, Some("2025-01-01T01:00:00Z")),
      TerminalItem(Some("B"), Some("T1"), Some("parcial"),
                   Some("2025-01-01T01:00:00Z"), None),
      TerminalItem(Some("B"), None, None, Some("01/01/2025 10:00"), None) }

\* agency records: of a vessel the terminal feed may know, of one it never
\* knows ("C"), and without identifier
AgenciaItems ==
    { AgenciaItem(Some("A"), Some("AG1")),
      AgenciaItem(Some("C"), Some("AG2")),
      AgenciaItem(None, Some("AG3")) }

\* pilotage records: of a known vessel, of an unknown one whose malformed
\* timestamp is never parsed, and of a known one whose malformed timestamp is
PraticagemItems ==
    { PraticagemItem(Some("A"), Some("2025-01-01T00:00:00+00:00"),
                     Some("2025-01-01T01:00:00Z"), Some("entrada"), None),
      PraticagemItem(Some("C"), Some("not-a-date"), None, None, None),
      PraticagemItem(Some("A"), Some("not-a-date"), None, None, None) }

AutoridadeFeeds == { <<>>, <<[identificadorNavio |-> Some("C")]>> }

\* longest schedule list given to detect_berth_conflicts
MaxSchedules == 3

\* a VesselSchedule as the persistence layer may hand it back: any field set
\* (neither detect_berth_conflicts nor calculate_kpis reads the id: it is 0)
Schedule(id, terminal, etb_estimado, etd_estimado, atb, atd) ==
    [VesselSchedule(0, id, terminal, None, PLANEJADO, None)
       EXCEPT !.etb.estimado = etb_estimado, !.etd.estimado = etd_estimado,
              !.atb = atb, !.atd = atd]

VesselId(i) == <<"A", "B", "C", "D", "E">>[i]

\* instants, some half a minute apart so that differences need not be whole
\* minutes, and far enough apart for a window inverted by a whole minute to
\* lie inside another
Instants == {0, 60, 90, 120, 240}

OptInstants == {None} \cup {Some(t) : t \in Instants}

\* schedules for the pairwise cases: every terminal value, every window over
\* Instants (estimates missing, inverted or empty included), with or without
\* actual berthing and departure instants
PairSchedules(id) ==
    { Schedule(id, terminal, etb, etd, actual[1], actual[2]) :
        terminal \in {None, Some(""), Some("T1"), Some("T2")},
        etb \in OptInstants, etd \in OptInstants,
        actual \in { <<None, None>>, <<Some(0), Some(120)>> } }

\* shapes <<terminal, etb.estimado, etd.estimado, atb, atd>> for the longer
\* lists: windows on one terminal that touch, overlap by a whole or a
\* fractional number of minutes, or are inverted, a window on another
\* terminal, and a schedule that has only actual instants
ListShapes ==
    { <<Some("T1"), Some(w[1]), Some(w[2]), None, None>> :
        w \in { <<0, 60>>, <<60, 120>>, <<0, 90>>, <<90, 60>>, <<0, 120>> } }
    \cup { <<Some("T2"), Some(0), Some(120), None, None>>,
           <<Some("T1"), None, None, Some(0), Some(120)>> }

\* the lists of length k whose i-th schedule carries the i-th identifier
ListsOfLen(k) ==
    { [i \in 1..k |-> Schedule(VesselId(i), f[i][1], f[i][2], f[i][3], f[i][4], f[i][5])] :
        f \in [1..k -> ListShapes] }

\* the reorderings of a list of n elements
Reorderings(n) == { p \in [1..n -> 1..n] : \A a, b \in 1..n : p[a] = p[b] => a = b }

\* longest schedule list given to calculate_kpis in the mixed cases
MaxKpiSchedules == 2

\* longest schedule list of berthing trials (the spec's example has ten)
MaxRcjSchedules == 10

\* a VesselSchedule with the six instants calculate_kpis reads
KpiSchedule(eta_estimado, eta_registrado, etb_estimado, ata, atb, atd) ==
    [VesselSchedule(0, "A", Some("T1"), None, PLANEJADO, None)
       EXCEPT !.eta.estimado = eta_estimado, !.eta.registrado = eta_registrado,
              !.etb.estimado = etb_estimado, !.ata = ata, !.atb = atb, !.atd = atd]

\* the window of the windowing cases, and one whose bounds are swapped
NarrowWindows == { <<3600, 7200>>, <<7200, 3600>> }

\* a window that holds every instant of the statistics cases
WideWindow == <<0, 200000>>

\* windowing cases for [3600, 7200]: each of the four instants absent, on a
\* bound of the window, or one second outside it
WindowSchedules ==
    { KpiSchedule(Some(5000), eta_registrado, etb_estimado, ata, atb, None) :
        ata \in {None, Some(3600), Some(7201)},
        atb \in {None, Some(7200)},
        eta_registrado \in {None, Some(3599)},
        etb_estimado \in {None, Some(3600)} }

\* MAE cases: each ETA reference present or not, arrival late by 2046
\* minutes, early by one minute or unknown, berthing known or not
MaeSchedules ==
    { KpiSchedule(eta_estimado, eta_registrado, None, ata, atb, None) :
        eta_estimado \in {None, Some(3600)},
        eta_registrado \in {None, Some(3000)},
        ata \in {None, Some(126360), Some(3540)},
        atb \in {None, Some(7230)} }

\* waiting/berth cases: arrival from ata or eta.registrado, berthing before,
\* at or after arrival, departure before, at or after berthing
WbSchedules ==
    { KpiSchedule(None, eta_registrado, None, ata, atb, atd) :
        eta_registrado \in {None, Some(3000)},
        ata \in {None, Some(3600)},
        atb \in {None, Some(3300), Some(3600), Some(5400)},
        atd \in {None, Some(5400), Some(9000)} }

\* berthing trials: on time, 30 minutes late or early, one second more than
\* that, and schedules that are no trial
RcjSchedules ==
    { KpiSchedule(None, None, etb_estimado, None, atb, None) :
        etb_estimado \in {None, Some(3600)},
        atb \in {None, Some(3600), Some(5400), Some(1800), Some(5401), Some(1799)} }

\* the two trials of the long lists: exactly 30 minutes late, and one second more
RcjHit == KpiSchedule(None, None, Some(3600), None, Some(5400), None)

RcjMiss == KpiSchedule(None, None, Some(3600), None, Some(5401), None)

---------------------------------------------------------------------------
(* The caller's state machine                                              *)

NotCalled == [called |-> FALSE]

\* the requests the server may have in progress at the same time
RequestIds == {"r1", "r2"}

\* a request: its handler, its position in the handler, and the handler's
\* local variables: items is vessel_schedules or historical_data, i the loop
\* index over items, j the loop index over conflicts
Request(handler, at, items, i, found, j) ==
    [handler |-> handler, at |-> at, items |-> items, i |-> i,
     conflicts |-> found, j |-> j]

\* a request slot with no request in it
Idle == Request("none", "idle", <<>>, 1, <<>>, 1)

\* what the client of the conflicts endpoints holds: which request of the
\* server's this answers, the handler called, the path parameter, the status
\* code and the list in the body
Response(serial, handler, conflict_id, status, listing) ==
    [serial |-> serial, handler |-> handler, conflict_id |-> conflict_id,
     status |-> status, listing |-> listing]

NoResponse == Response(0, "none", 0, 0, <<>>)

InitIdle ==
    /\ pc = "start"
    /\ vessel_schedules = NotCalled
    /\ conflicts = <<>>
    /\ conflicts_perm = <<>>
    /\ kpis = NotCalled
    /\ vessel_schedules_again = NotCalled
    /\ calls = <<>>
    /\ uuid_seq = 0
    /\ db_vessel_schedules = <<>>
    /\ db_conflicts = <<>>
    /\ requests = [r \in RequestIds |-> Idle]
    /\ served = 0
    /\ response = NoResponse

NoFeeds ==
    /\ terminal_data = <<>>
    /\ agencia_data = <<>>
    /\ praticagem_data = <<>>
    /\ autoridade_data = <<>>

NoSchedules ==
    /\ schedules = <<>>
    /\ start_date = 0
    /\ end_date = 0

\* the seeds a process may start with
HashSeeds == {0, 57}

FirstSeed == hash_seed = 0

InitConsolidate ==
    /\ InitIdle
    /\ FirstSeed
    /\ NoSchedules
    /\ terminal_data \in SeqsUpTo(TerminalItems, MaxTerminal)
    /\ agencia_data \in SeqsUpTo(AgenciaItems, MaxEnrich)
    /\ praticagem_data \in SeqsUpTo(PraticagemItems, MaxEnrich)
    /\ autoridade_data \in AutoridadeFeeds

\* vessel_schedules = DataConsolidationService.consolidate_vessel_data(...)
Consolidate ==
    /\ pc = "start"
    /\ vessel_schedules' = consolidate_vessel_data(agencia_data, praticagem_data,
                                                   terminal_data, autoridade_data)
    /\ uuid_seq' = uuid_seq + vessel_schedules'.drawn
    /\ pc' = "consolidated"
    /\ UNCHANGED <<terminal_data, agencia_data, praticagem_data, autoridade_data,
                   schedules, conflicts, conflicts_perm, start_date, end_date, kpis,
                   vessel_schedules_again, hash_seed, calls, server_vars, response>>

NextConsolidate == Consolidate

SpecConsolidate == InitConsolidate /\ [][NextConsolidate]_vars

InitDetect ==
    /\ InitIdle
    /\ FirstSeed
    /\ NoFeeds
    /\ start_date = 0
    /\ end_date = 0
    /\ \/ schedules \in { <<s1, s2>> : s1 \in PairSchedules(VesselId(1)),
                                       s2 \in PairSchedules(VesselId(2)) }
       \/ schedules \in UNION { ListsOfLen(k) : k \in 0..MaxSchedules }

\* conflicts = ConflictDetectionService.detect_berth_conflicts(schedules)
Detect ==
    /\ pc = "start"
    /\ conflicts' = detect_berth_conflicts(schedules)
    /\ uuid_seq' = uuid_seq + Len(conflicts')
    /\ pc' = "detected"
    /\ UNCHANGED <<terminal_data, agencia_data, praticagem_data, autoridade_data,
                   vessel_schedules, schedules, conflicts_perm, start_date, end_date,
                   kpis, vessel_schedules_again, hash_seed, calls, server_vars, response>>

\* a second call, on the same schedules in another order
DetectPermuted ==
    /\ pc = "detected"
    /\ \E p \in Reorderings(Len(schedules)) :
          conflicts_perm' = detect_berth_conflicts([i \in 1..Len(schedules) |-> schedules[p[i]]])
    /\ uuid_seq' = uuid_seq + Len(conflicts_perm')
    /\ pc' = "permuted"
    /\ UNCHANGED <<terminal_data, agencia_data, praticagem_data, autoridade_data,
                   vessel_schedules, schedules, conflicts, start_date, end_date, kpis,
                   vessel_schedules_again, hash_seed, calls, server_vars, response>>

NextDetect == Detect \/ DetectPermuted

SpecDetect == InitDetect /\ [][NextDetect]_vars

InitKpis ==
    /\ InitIdle
    /\ FirstSeed
    /\ NoFeeds
    /\ \/ /\ schedules \in SeqsUpTo(WindowSchedules, MaxKpiSchedules)
          /\ \E w \in NarrowWindows : start_date = w[1] /\ end_date = w[2]
       \/ /\ schedules \in SeqsUpTo(MaeSchedules, MaxKpiSchedules)
                           \cup SeqsUpTo(WbSchedules, MaxKpiSchedules)
                           \cup SeqsUpTo(RcjSchedules, MaxKpiSchedules)
                           \cup SeqsUpTo({RcjHit, RcjMiss}, MaxRcjSchedules)
          /\ start_date = WideWindow[1]
          /\ end_date = WideWindow[2]

\* kpis = KPICalculationService.calculate_kpis(schedules, start_date, end_date)
CalculateKpis ==
    /\ pc = "start"
    /\ kpis' = calculate_kpis(schedules, start_date, end_date)
    /\ pc' = "kpis"
    /\ UNCHANGED <<terminal_data, agencia_data, praticagem_data, autoridade_data,
                   vessel_schedules, schedules, conflicts, conflicts_perm,
                   start_date, end_date, vessel_schedules_again, uuid_seq, hash_seed,
                   calls, server_vars, response>>

NextKpis == CalculateKpis

SpecKpis == InitKpis /\ [][NextKpis]_vars

---------------------------------------------------------------------------
(* Field-level cases of consolidate_vessel_data                            *)

\* a terminal record with every key the consolidation reads
TerminalRecord(id, nomeTerminal, tipoOperacao, statusOperacao, observacoes, prevista, realAtr) ==
    [identificadorNavio    |-> id,
     nomeTerminal          |-> nomeTerminal,
     tipoOperacao          |-> tipoOperacao,
     statusOperacao        |-> statusOperacao,
     observacoes           |-> observacoes,
     dataPrevistaAtracacao |-> prevista,
     dataRealAtracacao     |-> realAtr]

\* longest terminal feed of the duplicate cases
MaxDuplicates == 3

\* the keys of status_mapping, and values that are not keys: missing, empty,
\* unknown, the name of an internal status, a key in upper case
TerminalStatuses ==
    { None, Some(""), Some("concluida"), Some("aguardando_navio"), Some("cancelada"),
      Some("aguardando_documentacao"), Some("concluida_com_atraso"), Some("parcial"),
      Some("em_operacao"), Some("concluido"), Some("PARCIAL") }

\* status cases: every statusOperacao on one vessel, two of them on another
StatusItems ==
    { TerminalRecord(Some("A"), Some("T1"), None, st, None, None, None) :
        st \in TerminalStatuses }
    \cup { TerminalRecord(Some("B"), Some("T1"), None, st, None, None, None) :
             st \in {None, Some("PARCIAL")} }

\* three contents of a terminal record: every field set, none set, every
\* field set to another value
TerminalContents ==
    { <<Some("T1"), Some("carga"), Some("concluida"), Some("obs1"),
        Some("2025-01-01T00:00:00Z"), Some("2025-01-01T01:00:00Z")>>,
      <<None, None, None, None, None, None>>,
      <<Some("T2"), Some("descarga"), Some("parcial"), Some("obs2"),
        Some("2025-01-01T01:00:00Z"), None>> }

\* duplicate cases: each content for each of two vessels
DuplicateItems ==
    { TerminalRecord(Some(id), c[1], c[2], c[3], c[4], c[5], c[6]) :
        id \in {"A", "B"}, c \in TerminalContents }

\* the terminal records of the enrichment cases: two plain vessels and a key
\* of sample_marine_data
PlainItems ==
    { TerminalRecord(Some(id), Some("T1"), None, Some("concluida"), None,
                     Some("2025-01-01T00:00:00Z"), None) :
        id \in {"A", "B", "MSC-SANTOS-001"} }

\* agency records: two names and no name for one vessel, a name for a second
\* vessel, for a vessel the terminal feed never has, and without identifier
AgencyCaseItems ==
    { AgenciaItem(Some("A"), Some("AG1")),
      AgenciaItem(Some("A"), Some("AG2")),
      AgenciaItem(Some("A"), None),
      AgenciaItem(Some("B"), Some("AG1")),
      AgenciaItem(Some("C"), Some("AG3")),
      AgenciaItem(None, Some("AG4")) }

\* one well-formed pilotage record of vessel A
PilotageOfA ==
    PraticagemItem(Some("A"), Some("2025-01-01T00:00:00+00:00"),
                   Some("2025-01-01T01:00:00Z"), Some("entrada"), Some("vento"))

\* terminal records with a malformed or an empty timestamp, with and without
\* identifier
MalformedTerminalItems ==
    { TerminalRecord(Some("A"), Some("T1"), None, None, None,
                     Some("2025-01-01T00:00:00Z"), None),
      TerminalRecord(Some("A"), Some("T1"), None, None, None, Some("not-a-date"), None),
      TerminalRecord(Some("A"), Some("T1"), None, None, None,
                     Some("2025-01-01T00:00:00Z"), Some("01/01/2025 10:00")),
      TerminalRecord(Some("A"), Some("T1"), None, None, None, Some(""), Some("")),
      TerminalRecord(None, Some("T1"), None, None, None, Some("not-a-date"), None),
      TerminalRecord(Some(""), Some("T1"), None, None, None, None, Some("not-a-date")) }

\* pilotage records with a malformed timestamp: dataSolicitacao, dataExecucao
\* of each manobraTipo, and of a vessel the terminal feed never has
MalformedPilotageItems ==
    { PilotageOfA,
      PraticagemItem(Some("A"), Some("not-a-date"), None, None, None),
      PraticagemItem(Some("A"), None, Some("not-a-date"), Some("entrada"), None),
      PraticagemItem(Some("A"), None, Some("not-a-date"), Some("saida"), None),
      PraticagemItem(Some("A"), None, Some("not-a-date"), Some("atracacao"), None),
      PraticagemItem(Some("A"), None, Some("not-a-date"), None, None),
      PraticagemItem(Some("C"), Some("not-a-date"), Some("not-a-date"),
                     Some("entrada"), None) }

\* the enrichment feeds of the cases that are about the terminal feed: empty,
\* or one record of vessel A
AgencyFeedsOfA == { <<>>, <<AgenciaItem(Some("A"), Some("AG1"))>> }

\* well-formed pilotage records of vessel A, each populating another subset of
\* dataSolicitacao, dataExecucao (with each manobraTipo) and
\* motivoIntercorrencia, and one record of vessel B
PilotageCaseItems ==
    { PilotageOfA,
      PraticagemItem(Some("A"), Some("2025-01-01T00:00:00Z"), None, None, None),
      PraticagemItem(Some("A"), Some("2025-01-01T01:00:00Z"), None, None, None),
      PraticagemItem(Some("A"), None, Some("2025-01-01T01:00:00Z"), Some("entrada"), None),
      PraticagemItem(Some("A"), None, Some("2025-01-01T02:00:30Z"), Some("saida"), None),
      PraticagemItem(Some("A"), None, Some("2025-01-01T02:00:30Z"), Some("atracacao"), None),
      PraticagemItem(Some("A"), None, Some("2025-01-01T02:00:30Z"), None, None),
      PraticagemItem(Some("A"), None, None, Some("entrada"), Some("neblina")),
      PraticagemItem(Some("A"), Some(""), Some(""), Some("saida"), Some("")),
      PraticagemItem(Some("B"), Some("2025-01-01T02:00:30Z"),
                     Some("2025-01-01T00:00:00Z"), Some("saida"), Some("mare")) }

\* the terminal feeds of the pilotage cases: vessel A, or vessels A and B
PilotageTerminalFeeds ==
    { <<TerminalRecord(Some("A"), Some("T1"), None, Some("concluida"), None,
                       Some("2025-01-01T00:00:00Z"), None)>>,
      <<TerminalRecord(Some("A"), Some("T1"), None, Some("concluida"), None,
                       Some("2025-01-01T00:00:00Z"), None),
        TerminalRecord(Some("B"), Some("T2"), None, None, None, None, None)>> }

PilotageFeedsOfA == { <<>>, <<PilotageOfA>> }

InitFields ==
    /\ InitIdle
    /\ NoSchedules
    /\ autoridade_data = <<>>
    /\ \/ /\ FirstSeed
          /\ terminal_data \in SeqsUpTo(StatusItems, MaxTerminal)
          /\ agencia_data \in AgencyFeedsOfA
          /\ praticagem_data \in PilotageFeedsOfA
       \/ /\ FirstSeed
          /\ terminal_data \in SeqsUpTo(DuplicateItems, MaxDuplicates)
          /\ agencia_data \in AgencyFeedsOfA
          /\ praticagem_data \in PilotageFeedsOfA
       \/ /\ hash_seed \in HashSeeds
          /\ terminal_data \in SeqsUpTo(PlainItems, MaxTerminal)
          /\ agencia_data \in SeqsUpTo(AgencyCaseItems, MaxEnrich)
          /\ praticagem_data \in PilotageFeedsOfA
       \/ /\ FirstSeed
          /\ terminal_data \in SeqsUpTo(MalformedTerminalItems, MaxTerminal)
          /\ agencia_data = <<>>
          /\ praticagem_data \in SeqsUpTo(MalformedPilotageItems, MaxEnrich)
       \/ /\ FirstSeed
          /\ terminal_data \in PilotageTerminalFeeds
          /\ agencia_data = <<>>
          /\ praticagem_data \in SeqsUpTo(PilotageCaseItems, MaxEnrich)

\* a second call of consolidate_vessel_data, on the same four feeds
ConsolidateAgain ==
    /\ pc = "consolidated"
    /\ vessel_schedules_again' = consolidate_vessel_data(agencia_data, praticagem_data,
                                                         terminal_data, autoridade_data)
    /\ uuid_seq' = uuid_seq + vessel_schedules_again'.drawn
    /\ pc' = "consolidated_again"
    /\ UNCHANGED <<terminal_data, agencia_data, praticagem_data, autoridade_data,
                   vessel_schedules, schedules, conflicts, conflicts_perm,
                   start_date, end_date, kpis, hash_seed, calls, server_vars, response>>

NextFields == Consolidate \/ ConsolidateAgain

SpecFields == InitFields /\ [][NextFields]_vars

---------------------------------------------------------------------------
(* Empty inputs and records without optional fields                        *)

\* longest feed and longest schedule list of the sparse cases
MaxSparse == 1

\* terminal records: only the identifier, no key at all, every key
SparseTerminalItems ==
    { TerminalRecord(Some("A"), None, None, None, None, None, None),
      TerminalRecord(None, None, None, None, None, None, None),
      TerminalRecord(Some("A"), Some("T1"), Some("carga"), Some("parcial"), Some("obs1"),
                     Some("2025-01-01T00:00:00Z"), Some("2025-01-01T01:00:00Z")) }

SparseAgenciaItems ==
    { AgenciaItem(Some("A"), None), AgenciaItem(None, None),
      AgenciaItem(Some("A"), Some("AG1")) }

\* pilotage records: only the identifier, no key at all, dataExecucao without
\* manobraTipo, every key
SparsePraticagemItems ==
    { PraticagemItem(Some("A"), None, None, None, None),
      PraticagemItem(None, None, None, None, None),
      PraticagemItem(Some("A"), None, Some("2025-01-01T01:00:00Z"), None, None),
      PilotageOfA }

\* schedules: no optional field set, a terminal and a start without an end,
\* an ETA estimate only, every instant set
SparseSchedules ==
    { Schedule("A", None, None, None, None, None),
      Schedule("A", Some("T1"), Some(0), None, None, None),
      KpiSchedule(Some(3600), None, None, None, None, None),
      [KpiSchedule(Some(3600), Some(3000), Some(3600), Some(3600), Some(5400), Some(9000))
         EXCEPT !.etd.estimado = Some(9000)] }

InitSparse ==
    /\ InitIdle
    /\ FirstSeed
    /\ terminal_data \in SeqsUpTo(SparseTerminalItems, MaxSparse)
    /\ agencia_data \in SeqsUpTo(SparseAgenciaItems, MaxSparse)
    /\ praticagem_data \in SeqsUpTo(SparsePraticagemItems, MaxSparse)
    /\ autoridade_data \in AutoridadeFeeds
    /\ schedules \in SeqsUpTo(SparseSchedules, MaxSparse)
    /\ start_date = WideWindow[1]
    /\ end_date = WideWindow[2]

\* the caller makes one of the three calls
NextSparse == Consolidate \/ Detect \/ CalculateKpis

SpecSparse == InitSparse /\ [][NextSparse]_vars

---------------------------------------------------------------------------
(* The persistence layer and the synchronisation handlers                  *)

\* position of the first document of the collection with doc[field] = value,
\* 0 if there is none
FindOne(coll, field, value) ==
    IF \E k \in 1..Len(coll) : coll[k][field] = value
    THEN CHOOSE k \in 1..Len(coll) :
            /\ coll[k][field] = value
            /\ \A m \in 1..(k - 1) : coll[m][field] # value
    ELSE 0

InsertOne(coll, field, value, doc) == Append(coll, doc)

\* collection.replace_one({field: value}, doc, upsert=True)
replace_one(coll, field, value, doc) ==
    LET k == FindOne(coll, field, value)
    IN  IF k = 0 THEN Append(coll, doc) ELSE [coll EXCEPT ![k] = doc]

\* most requests the server accepts in one behaviour
MaxServed == 3

\* what the four feed endpoints return to one request: nothing, one vessel,
\* two vessels with an agency record, a vessel with a malformed timestamp, and
\* a vessel whose identifier is that of a historical entry of another
FeedSnapshots ==
    { [terminal |-> <<>>, agencia |-> <<>>],
      [terminal |-> <<TerminalRecord(Some("A"), Some("T1"), None, Some("concluida"), None,
                                     Some("2025-01-01T00:00:00Z"), None)>>,
       agencia  |-> <<>>],
      [terminal |-> <<TerminalRecord(Some("A"), Some("T2"), None, Some("parcial"), None,
                                     Some("2025-01-01T01:00:00Z"), None),
                      TerminalRecord(Some("B"), Some("T2"), None, None, None,
                                     Some("2025-01-01T01:00:00Z"), None)>>,
       agencia  |-> <<AgenciaItem(Some("A"), Some("AG1"))>>],
      [terminal |-> <<TerminalRecord(Some("B"), Some("T1"), None, None, None, None, None),
                      TerminalRecord(Some("A"), Some("T1"), None, None, None,
                                     Some("not-a-date"), None)>>,
       agencia  |-> <<>>],
      [terminal |-> <<TerminalRecord(Some("A-H0"), Some("T1"), None, None, None, None, None)>>,
       agencia  |-> <<>>] }

\* the values of the query parameter days_back
DaysBack == {0, 1}

\* f"{vessel_id}-H{days_ago}" for days_ago = 0
HistoricalId(vessel_id) ==
    CASE vessel_id = "A"    -> "A-H0"
      [] vessel_id = "B"    -> "B-H0"
      [] vessel_id = "A-H0" -> "A-H0-H0"

\* f"Historical Agency {n}"
HistoricalAgency(n) ==
    CASE n = 1 -> "Historical Agency 1"
      [] n = 2 -> "Historical Agency 2"

\* the truthy identificadorNavio values of a feed, in feed order
RECURSIVE FeedIds(_)
FeedIds(feed) ==
    IF feed = <<>> THEN <<>>
    ELSE (IF TruthyStr(Head(feed).identificadorNavio)
          THEN <<Head(feed).identificadorNavio[1]>> ELSE <<>>) \o FeedIds(Tail(feed))

\* fetch_extended_historical_data(days_back) for the snapshot f: one entry per
\* vessel identifier and day, the identifiers in the order list(set(...))
\* happens to give.  vessel_ids is one such order.
fetch_extended_historical_data(vessel_ids, days_back) ==
    IF days_back < 1 THEN <<>>
    ELSE [n \in 1..Len(vessel_ids) |->
            [identificadorNavio |-> Some(HistoricalId(vessel_ids[n])),
             nomeAgencia        |-> Some(HistoricalAgency(n))]]

\* the lists that hold each element of the set S once
OrdersOf(S) ==
    { q \in [1..Cardinality(S) -> S] :
        \A a, b \in 1..Cardinality(S) : q[a] = q[b] => a = b }

\* the slot r can take a new request
Free(r) == requests[r].at \in {"idle", "done", "failed"} /\ served < MaxServed

StartSyncExternalSkipsMalformed(r) ==
    /\ Free(r)
    /\ \E f \in FeedSnapshots :
          LET out  == consolidate_vessel_data(f.agencia, <<>>, f.terminal, <<>>)
              rest == consolidate_vessel_data(f.agencia, <<>>,
                                              SubSeq(f.terminal, 1, Len(f.terminal) - 1),
                                              <<>>)
          IN  /\ requests' = [requests EXCEPT ![r] =
                     IF out.raised
                     THEN Request("sync_external_data", "store_schedules",
                                  rest.vessels, 1, <<>>, 1)
                     ELSE Request("sync_external_data", "store_schedules",
                                  out.vessels, 1, <<>>, 1)]
              /\ uuid_seq' = uuid_seq + out.drawn
    /\ served' = served + 1
    /\ UNCHANGED <<db_vessel_schedules, db_conflicts, caller_vars, response>>

\* sync_external_data, lines 641-651: the four fetches and the consolidation.
\* A parse error leaves through the except clause of line 678: HTTP 500.
StartSyncExternal(r) ==
    /\ Free(r)
    /\ \E f \in FeedSnapshots :
          LET out == consolidate_vessel_data(f.agencia, <<>>, f.terminal, <<>>)
          IN  /\ requests' = [requests EXCEPT ![r] =
                     IF out.raised
                     THEN Request("sync_external_data", "failed", <<>>, 1, <<>>, 1)
                     ELSE Request("sync_external_data", "store_schedules",
                                  out.vessels, 1, <<>>, 1)]
              /\ uuid_seq' = uuid_seq + out.drawn
    /\ served' = served + 1
    /\ UNCHANGED <<db_vessel_schedules, db_conflicts, caller_vars, response>>

\* one iteration of the loop of lines 654-659
StoreSchedule(r) ==
    /\ requests[r].at = "store_schedules"
    /\ requests[r].i <= Len(requests[r].items)
    /\ LET schedule == requests[r].items[requests[r].i]
       IN  db_vessel_schedules' =
              replace_one(db_vessel_schedules, "identificador_navio",
                          schedule.identificador_navio, schedule)
    /\ requests' = [requests EXCEPT ![r].i = @ + 1]
    /\ UNCHANGED <<db_conflicts, served, uuid_seq, caller_vars, response>>

\* line 662, after the loop of lines 654-659
DetectConflicts(r) ==
    /\ requests[r].at = "store_schedules"
    /\ requests[r].i > Len(requests[r].items)
    /\ LET found == detect_berth_conflicts(requests[r].items)
       IN  /\ requests' = [requests EXCEPT ![r].at = "store_conflicts",
                                           ![r].conflicts = found, ![r].j = 1]
           /\ uuid_seq' = uuid_seq + Len(found)
    /\ UNCHANGED <<db_vessel_schedules, db_conflicts, served, caller_vars, response>>

\* one iteration of the loop of lines 665-670
StoreConflict(r) ==
    /\ requests[r].at = "store_conflicts"
    /\ requests[r].j <= Len(requests[r].conflicts)
    /\ LET conflict == requests[r].conflicts[requests[r].j]
       IN  db_conflicts' = replace_one(db_conflicts, "id", conflict.id, conflict)
    /\ requests' = [requests EXCEPT ![r].j = @ + 1]
    /\ UNCHANGED <<db_vessel_schedules, served, uuid_seq, caller_vars, response>>

\* lines 672-676
ReturnSyncExternal(r) ==
    /\ requests[r].at = "store_conflicts"
    /\ requests[r].j > Len(requests[r].conflicts)
    /\ requests' = [requests EXCEPT ![r].at = "done"]
    /\ UNCHANGED <<db_vessel_schedules, db_conflicts, served, uuid_seq, caller_vars, response>>

\* sync_historical_data, line 769
StartSyncHistorical(r) ==
    /\ Free(r)
    /\ \E f \in FeedSnapshots, days_back \in DaysBack :
          \E vessel_ids \in OrdersOf({ FeedIds(f.terminal \o f.agencia)[n] :
                                         n \in 1..Len(FeedIds(f.terminal \o f.agencia)) }) :
             requests' = [requests EXCEPT ![r] =
                 Request("sync_historical_data", "store_historical",
                         fetch_extended_historical_data(vessel_ids, days_back),
                         1, <<>>, 1)]
    /\ served' = served + 1
    /\ UNCHANGED <<db_vessel_schedules, db_conflicts, uuid_seq, caller_vars, response>>

\* one iteration of the loop of lines 772-784
StoreHistorical(r) ==
    /\ requests[r].at = "store_historical"
    /\ requests[r].i <= Len(requests[r].items)
    /\ LET entry == requests[r].items[requests[r].i]
           vessel_schedule ==
              [VesselSchedule(uuid4(1), entry.identificadorNavio[1], None, None,
                              PLANEJADO, None)
                 EXCEPT !.agencia_maritima = entry.nomeAgencia]
       IN  db_vessel_schedules' =
              replace_one(db_vessel_schedules, "identificador_navio",
                          vessel_schedule.identificador_navio, vessel_schedule)
    /\ uuid_seq' = uuid_seq + 1
    /\ requests' = [requests EXCEPT ![r].i = @ + 1]
    /\ UNCHANGED <<db_conflicts, served, caller_vars, response>>

\* lines 786-790
ReturnSyncHistorical(r) ==
    /\ requests[r].at = "store_historical"
    /\ requests[r].i > Len(requests[r].items)
    /\ requests' = [requests EXCEPT ![r].at = "done"]
    /\ UNCHANGED <<db_vessel_schedules, db_conflicts, served, uuid_seq, caller_vars, response>>

InitSync ==
    /\ InitIdle
    /\ FirstSeed
    /\ NoFeeds
    /\ NoSchedules

\* The handlers run on one event loop and give way to each other only at an
\* await.  The loop of lines 665-670 never runs here: the schedules that
\* consolidate_vessel_data returns have no etd.estimado, so line 662 finds no
\* conflict, and StoreConflict is never enabled.
NextSync ==
    \E r \in RequestIds :
       \/ StartSyncExternal(r)
       \/ StoreSchedule(r)
       \/ DetectConflicts(r)
       \/ ReturnSyncExternal(r)
       \/ StartSyncHistorical(r)
       \/ StoreHistorical(r)
       \/ ReturnSyncHistorical(r)

SpecSync == InitSync /\ [][NextSync]_vars

---------------------------------------------------------------------------
(* Detection passes on a given schedule list, and resolve_conflict         *)

UpdateManyResolvido(coll, conflict_id) ==
    IF FindOne(coll, "id", conflict_id) = 0 THEN coll
    ELSE [k \in 1..Len(coll) |-> [coll[k] EXCEPT !.resolvido = TRUE]]

\* the length given to to_list at line 710
ToListLength == 1000

find_all(coll) == SubSeq(coll, 1, Min2(Len(coll), ToListLength))

\* collection.find({"resolvido": False}).to_list(1000): the matching
\* documents in stored order, the first 1000 of them
find_unresolved(coll) ==
    LET matching == SelectSeq(coll, LAMBDA conflict : conflict.resolvido = FALSE)
    IN  SubSeq(matching, 1, Min2(Len(matching), ToListLength))

\* collection.update_one({"id": conflict_id}, {"$set": {"resolvido": True}})
update_one_resolvido(coll, conflict_id) ==
    LET k == FindOne(coll, "id", conflict_id)
    IN  IF k = 0 THEN coll ELSE [coll EXCEPT ![k].resolvido = TRUE]

\* the schedule lists of the passes: empty, two windows that touch (no
\* alert), two that overlap (one alert), three of which the first overlaps
\* the other two (two alerts)
AlertLists ==
    { <<>>,
      << Schedule("A", Some("T1"), Some(0), Some(60), None, None),
         Schedule("B", Some("T1"), Some(60), Some(120), None, None) >>,
      << Schedule("A", Some("T1"), Some(0), Some(120), None, None),
         Schedule("B", Some("T1"), Some(60), Some(120), None, None) >>,
      << Schedule("A", Some("T1"), Some(0), Some(120), None, None),
         Schedule("B", Some("T1"), Some(0), Some(90), None, None),
         Schedule("C", Some("T1"), Some(90), Some(120), None, None) >> }

InitAlerts ==
    /\ InitIdle
    /\ FirstSeed
    /\ NoFeeds
    /\ schedules \in AlertLists
    /\ start_date = 0
    /\ end_date = 0

\* a sync-external-data request that has reached line 661 with the list
\* `schedules` as its vessel_schedules
StartPass(r) ==
    /\ Free(r)
    /\ requests' = [requests EXCEPT ![r] =
          Request("sync_external_data", "store_schedules", schedules,
                  Len(schedules) + 1, <<>>, 1)]
    /\ served' = served + 1
    /\ UNCHANGED <<db_vessel_schedules, db_conflicts, uuid_seq, caller_vars, response>>

\* resolve_conflict(conflict_id), lines 721-727: one update, then 200, or 404
\* when matched_count is 0
ResolveConflict(conflict_id) ==
    /\ served < MaxServed
    /\ db_conflicts' = update_one_resolvido(db_conflicts, conflict_id)
    /\ response' = Response(served + 1, "resolve_conflict", conflict_id,
                            IF FindOne(db_conflicts, "id", conflict_id) = 0
                            THEN 404 ELSE 200,
                            <<>>)
    /\ served' = served + 1
    /\ UNCHANGED <<db_vessel_schedules, requests, uuid_seq, caller_vars>>

\* get_conflicts(), lines 710-711: one query, then 200 with the documents
GetConflicts ==
    /\ served < MaxServed
    /\ response' = Response(served + 1, "get_conflicts", 0, 200,
                            find_unresolved(db_conflicts))
    /\ served' = served + 1
    /\ UNCHANGED <<db_vessel_schedules, db_conflicts, requests, uuid_seq, caller_vars>>

\* the ids of the stored alerts
StoredAlertIds == { db_conflicts[k].id : k \in 1..Len(db_conflicts) }

\* a resolve request for the id of a stored alert, or for an id that no
\* alert has
ResolveSomeConflict ==
    \E conflict_id \in StoredAlertIds \cup {0} : ResolveConflict(conflict_id)

NextAlerts ==
    \/ \E r \in RequestIds :
          \/ StartPass(r)
          \/ DetectConflicts(r)
          \/ StoreConflict(r)
          \/ ReturnSyncExternal(r)
    \/ ResolveSomeConflict
    \/ GetConflicts

SpecAlerts == InitAlerts /\ [][NextAlerts]_vars

---------------------------------------------------------------------------
(* Claims about consolidate_vessel_data                                    *)

\* the distinct non-empty identifiers of the terminal feed
TerminalIds ==
    { terminal_data[i].identificadorNavio[1] :
        i \in { k \in 1..Len(terminal_data) :
                  TruthyStr(terminal_data[k].identificadorNavio) } }

Returned == pc = "consolidated" /\ ~vessel_schedules.raised

\* C1: whenever consolidate_vessel_data returns, its result holds exactly one
\* schedule for each distinct non-empty identificadorNavio of the terminal
\* feed and none for any other identifier, whatever the agency, pilotage and
\* authority feeds hold; terminal records without identifier add nothing.
C1_OneSchedulePerTerminalId ==
    Returned =>
        /\ { vessel_schedules.vessels[i].identificador_navio :
               i \in 1..Len(vessel_schedules.vessels) } = TerminalIds
        /\ Len(vessel_schedules.vessels) = Cardinality(TerminalIds)

\* a call that returned one schedule from a feed with two records of the same
\* vessel, while the agency feed repeats a known vessel and the other feeds
\* name a vessel the terminal feed does not
C1_Witness ==
    /\ Returned
    /\ Len(terminal_data) = 2
    /\ terminal_data[1].identificadorNavio = Some("A")
    /\ terminal_data[2].identificadorNavio = Some("A")
    /\ Len(agencia_data) = 2
    /\ agencia_data[1].identificadorNavio = Some("A")
    /\ agencia_data[2].identificadorNavio = Some("A")
    /\ \E i \in 1..Len(praticagem_data) : praticagem_data[i].identificadorNavio = Some("C")
    /\ Len(vessel_schedules.vessels) = 1

---------------------------------------------------------------------------
(* Claims about detect_berth_conflicts                                     *)

Detected == pc \in {"detected", "permuted"}

\* the schedule of the input list that carries an identifier (the lists of
\* the model give every schedule its own)
ScheduleOf(id) == CHOOSE s \in {schedules[i] : i \in 1..Len(schedules)} :
                      s.identificador_navio = id

\* an alert of `alerts` names the two vessels, in either order
AlertFor(alerts, id1, id2) ==
    { k \in 1..Len(alerts) :
        alerts[k].navios_conflito \in {<<id1, id2>>, <<id2, id1>>} }

\* C2: two participating schedules on the same terminal get an alert if and
\* only if start1 < end2 and start2 < end1 (start = etb.estimado, end =
\* etd.estimado), and then exactly one; windows that touch or are disjoint get
\* none.
C2_AlertIffOverlap ==
    Detected =>
      \A i, j \in 1..Len(schedules) :
        (i < j /\ Participates(schedules[i]) /\ Participates(schedules[j])
               /\ schedules[i].terminal = schedules[j].terminal)
        => LET start1 == schedules[i].etb.estimado[1]
               end1   == schedules[i].etd.estimado[1]
               start2 == schedules[j].etb.estimado[1]
               end2   == schedules[j].etd.estimado[1]
               found  == AlertFor(conflicts, schedules[i].identificador_navio,
                                  schedules[j].identificador_navio)
           IN  /\ (start1 < end2 /\ start2 < end1) => Cardinality(found) = 1
               /\ ~(start1 < end2 /\ start2 < end1) => found = {}

\* two windows on the same terminal, the second starting at the instant the
\* first ends, and no alert
C2_Witness ==
    /\ pc = "detected"
    /\ Len(schedules) = 2
    /\ Participates(schedules[1]) /\ Participates(schedules[2])
    /\ schedules[1].terminal = schedules[2].terminal
    /\ schedules[1].etb.estimado[1] < schedules[1].etd.estimado[1]
    /\ schedules[1].etd.estimado = schedules[2].etb.estimado
    /\ schedules[2].etb.estimado[1] < schedules[2].etd.estimado[1]
    /\ conflicts = <<>>

\* C3 (as claimed): every alert carries tempo_overlap = floor of
\* (min(end1, end2) - max(start1, start2)) in minutes.
C3_OverlapIsFloor ==
    Detected =>
      \A k \in 1..Len(conflicts) :
        LET s1 == ScheduleOf(conflicts[k].navios_conflito[1])
            s2 == ScheduleOf(conflicts[k].navios_conflito[2])
            seconds == Min2(s1.etd.estimado[1], s2.etd.estimado[1])
                       - Max2(s1.etb.estimado[1], s2.etb.estimado[1])
        IN  conflicts[k].tempo_overlap = seconds \div 60

\* each alert as the unordered pair of its vessels with its overlap
AlertSummary(alert) ==
    <<{alert.navios_conflito[1], alert.navios_conflito[2]}, alert.tempo_overlap>>

\* the bag of the summaries of a list of alerts
SummaryBag(alerts) ==
    [x \in {AlertSummary(alerts[k]) : k \in 1..Len(alerts)} |->
        Cardinality({k \in 1..Len(alerts) : AlertSummary(alerts[k]) = x})]

\* C4: detection on a reordered list returns the same number of alerts, over
\* the same unordered vessel pairs, with the same tempo_overlap per pair.
C4_PermutationInvariant ==
    pc = "permuted" =>
        /\ Len(conflicts_perm) = Len(conflicts)
        /\ SummaryBag(conflicts_perm) = SummaryBag(conflicts)

\* a reordered call that returned the alerts of the first call in another
\* order, with the vessels of an alert swapped
C4_Witness ==
    /\ pc = "permuted"
    /\ Len(conflicts) >= 2
    /\ conflicts_perm # conflicts
    /\ \E k, m \in 1..Len(conflicts) :
          /\ conflicts_perm[m].navios_conflito[1] = conflicts[k].navios_conflito[2]
          /\ conflicts_perm[m].navios_conflito[2] = conflicts[k].navios_conflito[1]

\* C5: a schedule without non-empty terminal, etb.estimado or etd.estimado is
\* in no alert, whatever its atb and atd; the two schedules of an alert have
\* the same terminal.
C5_OnlyParticipantsAlerted ==
    Detected =>
      \A k \in 1..Len(conflicts) :
        LET s1 == ScheduleOf(conflicts[k].navios_conflito[1])
            s2 == ScheduleOf(conflicts[k].navios_conflito[2])
        IN  /\ TruthyStr(s1.terminal) /\ TruthyStr(s2.terminal)
            /\ s1.etb.estimado # None /\ s1.etd.estimado # None
            /\ s2.etb.estimado # None /\ s2.etd.estimado # None
            /\ s1.terminal = s2.terminal

\* a schedule with no estimated departure whose actual stay (atb to atd)
\* overlaps the window of a participating schedule on the same terminal, and
\* no alert
C5_Witness ==
    /\ pc = "detected"
    /\ Len(schedules) = 2
    /\ schedules[1].terminal = Some("T1")
    /\ schedules[1].etb.estimado = None /\ schedules[1].etd.estimado = None
    /\ schedules[1].atb = Some(0) /\ schedules[1].atd = Some(120)
    /\ Participates(schedules[2])
    /\ schedules[2].terminal = Some("T1")
    /\ schedules[2].etb.estimado = Some(60) /\ schedules[2].etd.estimado = Some(90)
    /\ conflicts = <<>>

---------------------------------------------------------------------------
(* Claims about calculate_kpis                                             *)

KpisReturned == pc = "kpis"

\* the first defined of ata, atb, eta.registrado, etb.estimado; None if none is
Representative(s) ==
    CASE s.ata # None            -> s.ata
      [] s.atb # None            -> s.atb
      [] s.eta.registrado # None -> s.eta.registrado
      [] OTHER                   -> s.etb.estimado

\* the schedules whose representative instant lies in [start_date, end_date]
RelevantIdx ==
    { i \in 1..Len(schedules) :
        /\ Representative(schedules[i]) # None
        /\ start_date <= Representative(schedules[i])[1]
        /\ Representative(schedules[i])[1] <= end_date }

\* the schedules of which at least one of the four instants lies in the window
AnyInstantIdx ==
    { i \in 1..Len(schedules) :
        \E o \in { schedules[i].ata, schedules[i].atb,
                   schedules[i].eta.registrado, schedules[i].etb.estimado } :
            o # None /\ start_date <= o[1] /\ o[1] <= end_date }

\* the sum of an integer-valued function with a finite domain
RECURSIVE IntSum(_)
IntSum(f) ==
    IF DOMAIN f = {} THEN 0
    ELSE LET x == CHOOSE x \in DOMAIN f : TRUE
         IN  f[x] + IntSum([y \in DOMAIN f \ {x} |-> f[y]])

\* the sum, as a pair <<n, d>> in lowest terms, of the fractions
\* f[x][1] / f[x][2] (each with f[x][1] >= 0 and f[x][2] > 0)
RECURSIVE PairSum(_)
PairSum(f) ==
    IF DOMAIN f = {} THEN <<0, 1>>
    ELSE LET x    == CHOOSE x \in DOMAIN f : TRUE
             rest == PairSum([y \in DOMAIN f \ {x} |-> f[y]])
             g1   == GCD(f[x][1], f[x][2])
             n1   == f[x][1] \div g1
             d1   == f[x][2] \div g1
             n    == n1 * rest[2] + rest[1] * d1
             d    == d1 * rest[2]
         IN  <<n \div GCD(n, d), d \div GCD(n, d)>>

\* C6: when no schedule is relevant to [start, end] (an empty list included)
\* the result has total_escalas = 0, the three rates undefined (not 0), and
\* periodo_inicio and periodo_fim equal to the given bounds.
C6_EmptyRelevantSet ==
    (KpisReturned /\ RelevantIdx = {}) =>
        /\ kpis.total_escalas = 0
        /\ kpis.mae_eta = None
        /\ kpis.wb_ratio = None
        /\ kpis.rcj_reliability = None
        /\ kpis.periodo_inicio = start_date
        /\ kpis.periodo_fim = end_date

\* a call on a non-empty list none of whose schedules is relevant, although
\* one of them has an instant inside the window
C6_Witness ==
    /\ KpisReturned
    /\ Len(schedules) = 2
    /\ RelevantIdx = {}
    /\ AnyInstantIdx # {}
    /\ start_date < end_date
    /\ kpis.total_escalas = 0
    /\ kpis.rcj_reliability = None

\* C7 (as claimed): a schedule is counted iff at least one of ata, atb,
\* eta.registrado, etb.estimado lies in [start, end].
C7_RelevantIffAnyInstant ==
    KpisReturned => kpis.total_escalas = Cardinality(AnyInstantIdx)

\* C7 (amended): a schedule is counted iff its representative instant, the
\* first defined of ata, atb, eta.registrado, etb.estimado in that order, lies
\* in [start, end], both bounds included.
C7_RelevantIffRepresentativeInWindow ==
    KpisReturned => kpis.total_escalas = Cardinality(RelevantIdx)

\* two schedules: one counted because its representative instant is the upper
\* bound itself, one not counted because its arrival is a second past the
\* window although its berthing lies inside
C7_Witness ==
    /\ KpisReturned
    /\ Len(schedules) = 2
    /\ kpis.total_escalas = 1
    /\ Representative(schedules[1]) = Some(end_date)
    /\ schedules[2].ata = Some(end_date + 1)
    /\ schedules[2].atb = Some(end_date)

\* eta_ref of a schedule: eta.estimado if defined, else eta.registrado
EtaRef(s) == IF s.eta.estimado # None THEN s.eta.estimado ELSE s.eta.registrado

\* the relevant schedules that contribute an ETA error
MaeIdx ==
    { i \in RelevantIdx :
        EtaRef(schedules[i]) # None
        /\ (schedules[i].ata # None \/ schedules[i].atb # None) }

\* |ata - eta_ref| in seconds, with atb in place of an undefined ata
MaeSeconds(s) ==
    Abs((IF s.ata # None THEN s.ata[1] ELSE s.atb[1]) - EtaRef(s)[1])

\* C8: mae_eta is the mean over the contributing relevant schedules of
\* |ata - eta_ref| in minutes (atb for an undefined ata), undefined when none
\* contributes; a single schedule with ata = eta.estimado + 2046 min gives 2046.
C8_MaeEta ==
    KpisReturned =>
        /\ MaeIdx = {} => kpis.mae_eta = None
        /\ MaeIdx # {} =>
             /\ kpis.mae_eta # None
             /\ kpis.mae_eta[1][1] * 60 * Cardinality(MaeIdx)
                  = kpis.mae_eta[1][2] * IntSum([i \in MaeIdx |-> MaeSeconds(schedules[i])])
        /\ (/\ Len(schedules) = 1 /\ RelevantIdx = {1}
            /\ schedules[1].eta.estimado # None
            /\ schedules[1].ata = Some(schedules[1].eta.estimado[1] + 2046 * 60))
           => kpis.mae_eta = Some(<<2046, 1>>)

\* the schedule of the 2046-minute example together with one that has only
\* eta.registrado and atb, so that the fallback contributes to the mean
C8_Witness ==
    /\ KpisReturned
    /\ Len(schedules) = 2
    /\ schedules[1].eta.estimado = Some(3600) /\ schedules[1].ata = Some(126360)
    /\ schedules[2].eta.estimado = None /\ schedules[2].eta.registrado = Some(3000)
    /\ schedules[2].ata = None /\ schedules[2].atb = Some(7230)
    /\ MaeIdx = {1, 2}
    /\ kpis.mae_eta = Some(<<4233, 4>>)

\* arrival of a schedule: ata if defined, else eta.registrado
Arrival(s) == IF s.ata # None THEN s.ata ELSE s.eta.registrado

\* the relevant schedules that contribute a waiting/berth ratio
WbIdx ==
    { i \in RelevantIdx :
        /\ Arrival(schedules[i]) # None
        /\ schedules[i].atb # None
        /\ schedules[i].atd # None
        /\ schedules[i].atd[1] - schedules[i].atb[1] > 0
        /\ schedules[i].atb[1] - Arrival(schedules[i])[1] >= 0 }

\* C9: wb_ratio is the mean of waiting/berthed over exactly the relevant
\* schedules with arrival, atb and atd defined, berthed > 0 and waiting >= 0;
\* the others are left out, not counted as zero; undefined when none qualify.
C9_WbRatio ==
    KpisReturned =>
        /\ WbIdx = {} => kpis.wb_ratio = None
        /\ WbIdx # {} =>
             LET total == PairSum([i \in WbIdx |->
                             <<schedules[i].atb[1] - Arrival(schedules[i])[1],
                               schedules[i].atd[1] - schedules[i].atb[1]>>])
             IN  /\ kpis.wb_ratio # None
                 /\ kpis.wb_ratio[1][1] * total[2] * Cardinality(WbIdx)
                      = kpis.wb_ratio[1][2] * total[1]

\* a qualifying schedule (waiting 30 min, berthed 60 min) beside one whose
\* departure is not after its berthing: the ratio is 1/2, not 1/4
C9_Witness ==
    /\ KpisReturned
    /\ Len(schedules) = 2
    /\ schedules[1].ata = Some(3600) /\ schedules[1].atb = Some(5400)
    /\ schedules[1].atd = Some(9000)
    /\ schedules[2].ata = Some(3600) /\ schedules[2].atb = Some(5400)
    /\ schedules[2].atd = Some(5400)
    /\ WbIdx = {1}
    /\ kpis.wb_ratio = Some(<<1, 2>>)

\* the relevant schedules with both etb.estimado and atb defined
RcjTrials ==
    { i \in RelevantIdx : schedules[i].etb.estimado # None /\ schedules[i].atb # None }

\* the trials with |atb - etb.estimado| <= 30 minutes
RcjSuccesses ==
    { i \in RcjTrials :
        Abs(schedules[i].atb[1] - schedules[i].etb.estimado[1]) <= 30 * 60 }

\* C10: rcj_reliability is 100 * successes / trials, a trial being a relevant
\* schedule with etb.estimado and atb, a success one within 30 minutes (30
\* included); undefined without trials; 8 successes in 10 trials give 80.
C10_RcjReliability ==
    KpisReturned =>
        /\ RcjTrials = {} => kpis.rcj_reliability = None
        /\ RcjTrials # {} =>
             /\ kpis.rcj_reliability # None
             /\ kpis.rcj_reliability[1][1] * Cardinality(RcjTrials)
                  = kpis.rcj_reliability[1][2] * 100 * Cardinality(RcjSuccesses)
        /\ (Cardinality(RcjTrials) = 10 /\ Cardinality(RcjSuccesses) = 8)
           => kpis.rcj_reliability = Some(<<80, 1>>)

\* ten trials, eight of them exactly 30 minutes late and two a second more
C10_Witness ==
    /\ KpisReturned
    /\ Len(schedules) = 10
    /\ Cardinality(RcjTrials) = 10
    /\ Cardinality(RcjSuccesses) = 8
    /\ \E i \in RcjSuccesses :
          schedules[i].atb[1] - schedules[i].etb.estimado[1] = 30 * 60
    /\ kpis.rcj_reliability = Some(<<80, 1>>)

\* the relevant schedules, in list order
RelevantSeq ==
    SelectSeq(schedules, LAMBDA s : /\ Representative(s) # None
                                    /\ start_date <= Representative(s)[1]
                                    /\ Representative(s)[1] <= end_date)

\* a schedule reduced to the fields one statistic is defined on
OnlyMaeFields(s) == [s EXCEPT !.etb.estimado = None, !.atd = None]

OnlyWbFields(s) == [s EXCEPT !.eta.estimado = None, !.etb.estimado = None]

OnlyRcjFields(s) ==
    [s EXCEPT !.eta.estimado = None, !.eta.registrado = None, !.ata = None, !.atd = None]

\* the list with f applied to each element
MapSeq(f(_), xs) == [i \in 1..Len(xs) |-> f(xs[i])]

\* C11: the three statistics are independent over the one relevant set: each
\* is defined exactly when some relevant schedule has that statistic's own
\* fields, its value does not change when every other field of the relevant
\* schedules is erased, and total_escalas counts every relevant schedule,
\* contributing or not.
C11_IndependentStatistics ==
    KpisReturned =>
        /\ kpis.total_escalas = Len(RelevantSeq)
        /\ kpis.total_escalas = Cardinality(RelevantIdx)
        /\ (kpis.mae_eta # None) <=> (MaeIdx # {})
        /\ (kpis.wb_ratio # None) <=> (WbIdx # {})
        /\ (kpis.rcj_reliability # None) <=> (RcjTrials # {})
        /\ RelevantSeq # <<>> =>
             /\ kpis.mae_eta = MeanOrNone(mae_errors(MapSeq(OnlyMaeFields, RelevantSeq)))
             /\ kpis.wb_ratio = MeanOrNone(wb_ratios(MapSeq(OnlyWbFields, RelevantSeq)))
             /\ kpis.rcj_reliability =
                  (LET er == MapSeq(OnlyRcjFields, RelevantSeq)
                   IN  IF rcj_total(er) > 0
                       THEN Some(Frac(rcj_count(er) * 100, rcj_total(er))) ELSE None)

\* two relevant schedules that contribute to no statistic: total_escalas is 2
\* and the three rates are undefined
C11_Witness ==
    /\ KpisReturned
    /\ Len(schedules) = 2
    /\ kpis.total_escalas = 2
    /\ kpis.mae_eta = None
    /\ kpis.wb_ratio = None
    /\ kpis.rcj_reliability = None

\* two relevant schedules of which the first contributes to wb_ratio only and
\* the second to mae_eta only
C11_MixedContribution ==
    /\ KpisReturned
    /\ Len(schedules) = 2
    /\ kpis.total_escalas = 2
    /\ WbIdx = {1}
    /\ MaeIdx = {2}
    /\ RcjTrials = {}

---------------------------------------------------------------------------
(* Claims about repeated calls and failures of consolidate_vessel_data     *)

ReturnedTwice ==
    pc = "consolidated_again" /\ ~vessel_schedules.raised /\ ~vessel_schedules_again.raised

\* C12 (as claimed): two runs on the same feeds return schedules that are
\* identical in every field other than created_at and updated_at.
C12_SecondRunIdentical ==
    ReturnedTwice => vessel_schedules_again.vessels = vessel_schedules.vessels

\* a schedule without its generated identity
WithoutId(v) == [v EXCEPT !.id = 0]

\* C12 (amended): two runs on the same feeds fail together or return lists of
\* the same length whose schedules agree, position by position, in every
\* field other than id (and created_at, updated_at); the ids of the second
\* run are all different from the ids of the first.
C12_SecondRunIdenticalButId ==
    pc = "consolidated_again" =>
        /\ vessel_schedules_again.raised = vessel_schedules.raised
        /\ Len(vessel_schedules_again.vessels) = Len(vessel_schedules.vessels)
        /\ \A i \in 1..Len(vessel_schedules.vessels) :
              WithoutId(vessel_schedules_again.vessels[i])
                = WithoutId(vessel_schedules.vessels[i])
        /\ \A i, j \in 1..Len(vessel_schedules.vessels) :
              vessel_schedules_again.vessels[i].id # vessel_schedules.vessels[j].id

\* two runs that returned a vessel of sample_marine_data, enriched by the
\* agency and the pilotage feed, next to a second vessel
C12_Witness ==
    /\ ReturnedTwice
    /\ Len(vessel_schedules.vessels) = 2
    /\ vessel_schedules.vessels[1].identificador_navio = "A"
    /\ vessel_schedules.vessels[1].agencia_maritima = Some("AG2")
    /\ vessel_schedules.vessels[1].ata = Some(3600)
    /\ vessel_schedules.vessels[2].identificador_navio = "MSC-SANTOS-001"
    /\ vessel_schedules.vessels[2].latitude # None
    /\ vessel_schedules_again.vessels[2].latitude = vessel_schedules.vessels[2].latitude
    /\ vessel_schedules.vessels[1].id = 1
    /\ vessel_schedules_again.vessels[1].id = 3

\* a timestamp field that holds a non-empty string fromisoformat rejects
Malformed(o) == TruthyStr(o) /\ IsoInstant(o[1]) = None

\* some record of the terminal or the pilotage feed holds a malformed timestamp
SomeMalformed ==
    \/ \E i \in 1..Len(terminal_data) :
          \/ Malformed(terminal_data[i].dataPrevistaAtracacao)
          \/ Malformed(terminal_data[i].dataRealAtracacao)
    \/ \E i \in 1..Len(praticagem_data) :
          \/ Malformed(praticagem_data[i].dataSolicitacao)
          \/ Malformed(praticagem_data[i].dataExecucao)

\* C13 (as claimed): the call fails, returning no schedules, whenever a
\* timestamp field of a feed record holds a malformed string.
C13_FailsOnAnyMalformed ==
    (pc = "consolidated" /\ SomeMalformed) =>
        vessel_schedules.raised /\ vessel_schedules.vessels = <<>>

\* a malformed timestamp the call reads: of a terminal record with an
\* identifier, or of a pilotage record of a vessel of the terminal feed
\* (dataExecucao only with manobraTipo entrada or saida)
SomeParsedMalformed ==
    \/ \E i \in 1..Len(terminal_data) :
          /\ TruthyStr(terminal_data[i].identificadorNavio)
          /\ \/ Malformed(terminal_data[i].dataPrevistaAtracacao)
             \/ Malformed(terminal_data[i].dataRealAtracacao)
    \/ \E i \in 1..Len(praticagem_data) :
          /\ praticagem_data[i].identificadorNavio # None
          /\ praticagem_data[i].identificadorNavio[1] \in TerminalIds
          /\ \/ Malformed(praticagem_data[i].dataSolicitacao)
             \/ /\ Malformed(praticagem_data[i].dataExecucao)
                /\ praticagem_data[i].manobraTipo \in {Some("entrada"), Some("saida")}

\* C13 (amended): the call fails, returning no schedules, exactly when a
\* timestamp it reads is malformed; a malformed timestamp of a terminal
\* record without identifier, of a pilotage record of an unknown vessel, or in
\* dataExecucao with a manobraTipo other than entrada and saida is not read,
\* and an empty string counts as absent.
C13_FailsIffParsedMalformed ==
    pc = "consolidated" =>
        /\ vessel_schedules.raised <=> SomeParsedMalformed
        /\ vessel_schedules.raised => vessel_schedules.vessels = <<>>
        /\ ~vessel_schedules.raised =>
              \A k \in 1..Len(vessel_schedules.vessels) :
                 \A t \in { vessel_schedules.vessels[k].etb.estimado,
                            vessel_schedules.vessels[k].atb,
                            vessel_schedules.vessels[k].eta.registrado,
                            vessel_schedules.vessels[k].ata,
                            vessel_schedules.vessels[k].atd } :
                    t = None \/ \E i \in 1..Len(terminal_data) \cup 1..Len(praticagem_data) :
                       \/ (i <= Len(terminal_data)
                           /\ t \in { IsoInstant(x[1]) :
                                       x \in { y \in { terminal_data[i].dataPrevistaAtracacao,
                                                       terminal_data[i].dataRealAtracacao } :
                                                 TruthyStr(y) } })
                       \/ (i <= Len(praticagem_data)
                           /\ t \in { IsoInstant(x[1]) :
                                       x \in { y \in { praticagem_data[i].dataSolicitacao,
                                                       praticagem_data[i].dataExecucao } :
                                                 TruthyStr(y) } })

\* a call that failed on the malformed dataExecucao of a departure of a known
\* vessel, after passing over the malformed timestamps of an unknown vessel
C13_Witness ==
    /\ pc = "consolidated"
    /\ vessel_schedules.raised
    /\ vessel_schedules.vessels = <<>>
    /\ Len(terminal_data) = 1
    /\ terminal_data[1].identificadorNavio = Some("A")
    /\ ~Malformed(terminal_data[1].dataPrevistaAtracacao)
    /\ Len(praticagem_data) = 2
    /\ praticagem_data[1].identificadorNavio = Some("C")
    /\ Malformed(praticagem_data[1].dataSolicitacao)
    /\ praticagem_data[2].identificadorNavio = Some("A")
    /\ praticagem_data[2].manobraTipo = Some("saida")
    /\ Malformed(praticagem_data[2].dataExecucao)

---------------------------------------------------------------------------
(* Claims about empty and sparse inputs                                    *)

\* C14: none of the three operations fails on empty input or on an absent
\* optional field: consolidate_vessel_data returns whenever no timestamp is
\* malformed, and [] for four empty feeds (and for an empty terminal feed);
\* detect_berth_conflicts returns [] for []; calculate_kpis returns count 0
\* and undefined rates for []; on sparse schedules both return a result built
\* from the schedules that have the fields.
C14_NoErrorOnEmptyOrAbsent ==
    /\ (pc = "consolidated" /\ ~SomeMalformed) => ~vessel_schedules.raised
    /\ (pc = "consolidated" /\ terminal_data = <<>>) =>
          vessel_schedules.vessels = <<>> /\ ~vessel_schedules.raised
    /\ (pc = "detected" /\ schedules = <<>>) => conflicts = <<>>
    /\ pc = "detected" =>
          \A k \in 1..Len(conflicts) :
             \A n \in {1, 2} : \E i \in 1..Len(schedules) :
                /\ schedules[i].identificador_navio = conflicts[k].navios_conflito[n]
                /\ Participates(schedules[i])
    /\ (pc = "kpis" /\ schedules = <<>>) =>
          kpis = KPIMetrics(None, None, None, start_date, end_date, 0)
    /\ pc = "kpis" =>
          /\ kpis.total_escalas \in 0..Len(schedules)
          /\ kpis.periodo_inicio = start_date /\ kpis.periodo_fim = end_date

\* a call that returned one schedule from feeds whose records carry nothing
\* but the identifier
C14_Witness ==
    /\ pc = "consolidated"
    /\ terminal_data = <<TerminalRecord(Some("A"), None, None, None, None, None, None)>>
    /\ agencia_data = <<AgenciaItem(Some("A"), None)>>
    /\ praticagem_data = <<PraticagemItem(Some("A"), None, None, None, None)>>
    /\ ~vessel_schedules.raised
    /\ Len(vessel_schedules.vessels) = 1
    /\ vessel_schedules.vessels[1].status = PLANEJADO
    /\ vessel_schedules.vessels[1].agencia_maritima = None

\* the three calls on empty input
C14_EmptyConsolidate ==
    /\ pc = "consolidated"
    /\ terminal_data = <<>> /\ agencia_data = <<>>
    /\ praticagem_data = <<>> /\ autoridade_data = <<>>
    /\ vessel_schedules.vessels = <<>>

C14_EmptyDetect == pc = "detected" /\ schedules = <<>> /\ conflicts = <<>>

C14_EmptyKpis == pc = "kpis" /\ schedules = <<>> /\ kpis.total_escalas = 0

---------------------------------------------------------------------------
(* Claims about the fields consolidate_vessel_data sets                    *)

\* the positions of the terminal records of a vessel
TerminalIdxOf(id) ==
    { i \in 1..Len(terminal_data) : terminal_data[i].identificadorNavio = Some(id) }

MaxOf(S) == CHOOSE x \in S : \A y \in S : y <= x

MinOf(S) == CHOOSE x \in S : \A y \in S : x <= y

\* the last terminal record of a vessel of the terminal feed
LastTerminalRecord(id) == terminal_data[MaxOf(TerminalIdxOf(id))]

\* the table of the claim
StatusTable(raw) ==
    CASE raw = Some("concluida")               -> "concluido"
      [] raw = Some("aguardando_navio")        -> "pendente"
      [] raw = Some("cancelada")               -> "cancelado"
      [] raw = Some("aguardando_documentacao") -> "pendente"
      [] raw = Some("concluida_com_atraso")    -> "atraso"
      [] raw = Some("parcial")                 -> "em_andamento"
      [] OTHER                                 -> "planejado"

\* C18: the status of every returned schedule is the table applied to the
\* statusOperacao of the vessel's (last) terminal record, planejado for a
\* value outside the table or a missing one, whatever the agency and pilotage
\* feeds hold.
C18_StatusFromTable ==
    Returned =>
      \A k \in 1..Len(vessel_schedules.vessels) :
         vessel_schedules.vessels[k].status =
            StatusTable(LastTerminalRecord(
               vessel_schedules.vessels[k].identificador_navio).statusOperacao)

\* a delayed vessel with agency and pilotage records, and a vessel whose
\* status is not a key of the table
C18_Witness ==
    /\ Returned
    /\ Len(terminal_data) = 2
    /\ terminal_data[1].identificadorNavio = Some("A")
    /\ terminal_data[1].statusOperacao = Some("concluida_com_atraso")
    /\ terminal_data[2].identificadorNavio = Some("B")
    /\ terminal_data[2].statusOperacao = Some("PARCIAL")
    /\ Len(agencia_data) = 1
    /\ Len(praticagem_data) = 1
    /\ vessel_schedules.vessels[1].status = "atraso"
    /\ vessel_schedules.vessels[1].agencia_maritima = Some("AG1")
    /\ vessel_schedules.vessels[1].ata # None
    /\ vessel_schedules.vessels[2].status = "planejado"

\* the instant of a timestamp field that is read, None for an absent one
ParsedOrNone(o) == IF TruthyStr(o) THEN IsoInstant(o[1]) ELSE None

\* C19: with several terminal records of one vessel, the returned schedule
\* has terminal, tipo_operacao, status, observacoes, etb.estimado and atb of
\* the last of them, absent where that record has none, and the schedules are
\* in the order in which their vessels first appear in the terminal feed.
C19_LastDuplicateWins ==
    Returned =>
      /\ \A k \in 1..Len(vessel_schedules.vessels) :
            LET v == vessel_schedules.vessels[k]
                r == LastTerminalRecord(v.identificador_navio)
            IN  /\ v.terminal = r.nomeTerminal
                /\ v.tipo_operacao = r.tipoOperacao
                /\ v.status = StatusTable(r.statusOperacao)
                /\ v.observacoes = r.observacoes
                /\ v.etb.estimado = ParsedOrNone(r.dataPrevistaAtracacao)
                /\ v.atb = ParsedOrNone(r.dataRealAtracacao)
      /\ \A k1, k2 \in 1..Len(vessel_schedules.vessels) :
            k1 < k2 =>
               MinOf(TerminalIdxOf(vessel_schedules.vessels[k1].identificador_navio))
                 < MinOf(TerminalIdxOf(vessel_schedules.vessels[k2].identificador_navio))

\* records A, B, A where the first has every field and the last none: A comes
\* first in the result and has none of the fields
C19_Witness ==
    /\ Returned
    /\ Len(terminal_data) = 3
    /\ terminal_data[1] = TerminalRecord(Some("A"), Some("T1"), Some("carga"),
                              Some("concluida"), Some("obs1"),
                              Some("2025-01-01T00:00:00Z"), Some("2025-01-01T01:00:00Z"))
    /\ terminal_data[2].identificadorNavio = Some("B")
    /\ terminal_data[3] = TerminalRecord(Some("A"), None, None, None, None, None, None)
    /\ Len(vessel_schedules.vessels) = 2
    /\ vessel_schedules.vessels[1].identificador_navio = "A"
    /\ vessel_schedules.vessels[1].terminal = None
    /\ vessel_schedules.vessels[1].status = "planejado"
    /\ vessel_schedules.vessels[1].etb.estimado = None
    /\ vessel_schedules.vessels[1].atb = None
    /\ vessel_schedules.vessels[2].identificador_navio = "B"

\* the positions of the agency records of a vessel
AgencyIdxOf(id) ==
    { i \in 1..Len(agencia_data) : agencia_data[i].identificadorNavio = Some(id) }

\* C20: agencia_maritima of a returned schedule is the nomeAgencia of the
\* last agency record of that vessel, absent if that record has none or if
\* there is no such record; every other field, and the list itself, is what
\* the call returns for an empty agency feed.
C20_AgencyOverwrites ==
    Returned =>
      LET bare == consolidate_vessel_data(<<>>, praticagem_data, terminal_data,
                                          autoridade_data).vessels
      IN  /\ Len(vessel_schedules.vessels) = Len(bare)
          /\ \A k \in 1..Len(vessel_schedules.vessels) :
                LET v == vessel_schedules.vessels[k]
                IN  /\ v.agencia_maritima =
                         (IF AgencyIdxOf(v.identificador_navio) = {} THEN None
                          ELSE agencia_data[MaxOf(AgencyIdxOf(v.identificador_navio))]
                                  .nomeAgencia)
                    /\ WithoutId([v EXCEPT !.agencia_maritima = None]) = WithoutId(bare[k])

\* two agency records of vessel A, the first with a name and the second
\* without: A's agency is absent; vessel B has no agency record
C20_Witness ==
    /\ Returned
    /\ Len(vessel_schedules.vessels) = 2
    /\ vessel_schedules.vessels[1].identificador_navio = "A"
    /\ vessel_schedules.vessels[2].identificador_navio = "B"
    /\ agencia_data = <<AgenciaItem(Some("A"), Some("AG1")), AgenciaItem(Some("A"), None)>>
    /\ vessel_schedules.vessels[1].agencia_maritima = None
    /\ vessel_schedules.vessels[2].agencia_maritima = None

\* an agency record of a vessel the terminal feed does not have, after one
\* of a vessel it has
C20_UnknownVessel ==
    /\ Returned
    /\ Len(vessel_schedules.vessels) = 1
    /\ agencia_data = <<AgenciaItem(Some("A"), Some("AG2")), AgenciaItem(Some("C"), Some("AG3"))>>
    /\ vessel_schedules.vessels[1].agencia_maritima = Some("AG2")

---------------------------------------------------------------------------
(* Claims about the schedule store                                         *)

\* no two documents of the collection have the same identificador_navio
OnePerIdentifier(coll) ==
    \A a, b \in 1..Len(coll) :
       coll[a].identificador_navio = coll[b].identificador_navio => a = b

\* C15: the schedule store never holds two schedules of one identifier, and
\* no step of a sync-external-data or sync-historical-data request, however
\* the two kinds interleave, removes a stored identifier: a step leaves every
\* stored document in place or replaces it by one of the same identifier.
C15_OnePerIdentifierNeverRemoved ==
    [][ /\ OnePerIdentifier(db_vessel_schedules)
        /\ OnePerIdentifier(db_vessel_schedules')
        /\ Len(db_vessel_schedules') >= Len(db_vessel_schedules)
        /\ \A k \in 1..Len(db_vessel_schedules) :
              db_vessel_schedules'[k].identificador_navio
                = db_vessel_schedules[k].identificador_navio ]_vars

\* two sync-external-data requests are both inside their storing loops, the
\* store holds vessel A as the second of them wrote it and vessel A-H0 as a
\* historical request wrote it before
C15_Witness ==
    /\ requests["r1"].at = "store_schedules"
    /\ requests["r2"].at = "store_schedules"
    /\ requests["r1"].i = 2 /\ Len(requests["r1"].items) = 2
    /\ requests["r2"].i = 2
    /\ Len(db_vessel_schedules) = 2
    /\ db_vessel_schedules[1].identificador_navio = "A-H0"
    /\ db_vessel_schedules[1].agencia_maritima = Some("Historical Agency 1")
    /\ db_vessel_schedules[2].identificador_navio = "A"
    /\ db_vessel_schedules[2] = requests["r2"].items[1]
    /\ db_vessel_schedules[2] # requests["r1"].items[1]

---------------------------------------------------------------------------
(* Claims about the alert store                                            *)

\* C16: an alert enters the store, and leaves detect_berth_conflicts, with
\* resolvido = FALSE; a stored flag turns TRUE only in a step that is
\* resolve_conflict on that alert's id; a stored alert whose flag is TRUE is
\* still stored, under its id and with the flag TRUE, after every step.
C16_ResolvedOnlyByResolveAndStays ==
    [][ /\ \A r \in RequestIds : \A k \in 1..Len(requests'[r].conflicts) :
              ~requests'[r].conflicts[k].resolvido
        /\ \A k \in (Len(db_conflicts) + 1)..Len(db_conflicts') :
              ~db_conflicts'[k].resolvido
        /\ \A k \in 1..Len(db_conflicts) :
              /\ Len(db_conflicts') >= k
              /\ db_conflicts'[k].id = db_conflicts[k].id
              /\ db_conflicts[k].resolvido => db_conflicts'[k].resolvido
              /\ (~db_conflicts[k].resolvido /\ db_conflicts'[k].resolvido)
                    => /\ ResolveConflict(db_conflicts[k].id)
                       /\ Len(db_conflicts') = Len(db_conflicts)
                       /\ \A m \in 1..Len(db_conflicts) :
                             m # k => db_conflicts'[m] = db_conflicts[m] ]_vars

\* what an alert says, without its identity and its flag
AlertContent(alert) ==
    <<alert.berco, alert.navios_conflito, alert.tipo_conflito, alert.tempo_overlap>>

\* an alert was resolved, and a later pass over the same schedules has stored
\* an alert of the same content as a new, unresolved record
C16_Witness ==
    /\ Len(db_conflicts) = 2
    /\ db_conflicts[1].resolvido
    /\ ~db_conflicts[2].resolvido
    /\ AlertContent(db_conflicts[2]) = AlertContent(db_conflicts[1])
    /\ \E r \in RequestIds : requests[r].at = "done" /\ requests[r].conflicts = <<db_conflicts[2]>>

\* the request has the alerts of its detection pass
HasDetected(r) == requests[r].at \in {"store_conflicts", "done"}

\* C17: every pass over the same schedules finds alerts of the same berth,
\* vessels, kind and overlap, in the same order, under identities no other
\* pass and no stored alert of another pass has; storing one adds a record,
\* so the number of stored alerts never decreases and no two stored alerts
\* share an id.
C17_FreshAlertsEveryPass ==
    [][ /\ Len(db_conflicts') >= Len(db_conflicts)
        /\ \A r \in RequestIds :
              (requests[r].at = "store_conflicts" /\ requests'[r].j = requests[r].j + 1)
                 => /\ Len(db_conflicts') = Len(db_conflicts) + 1
                    /\ db_conflicts'[Len(db_conflicts')] = requests[r].conflicts[requests[r].j]
        /\ \A a, b \in 1..Len(db_conflicts') :
              db_conflicts'[a].id = db_conflicts'[b].id => a = b
        /\ \A r1, r2 \in RequestIds :
              (r1 # r2 /\ HasDetected(r1)' /\ HasDetected(r2)') =>
                 /\ Len(requests'[r1].conflicts) = Len(requests'[r2].conflicts)
                 /\ \A k \in 1..Len(requests'[r1].conflicts) :
                       AlertContent(requests'[r1].conflicts[k])
                         = AlertContent(requests'[r2].conflicts[k])
                 /\ \A k, m \in 1..Len(requests'[r1].conflicts) :
                       requests'[r1].conflicts[k].id # requests'[r2].conflicts[m].id ]_vars

\* two passes over three schedules have each stored their two alerts: four
\* records, the third and fourth repeating the content of the first two
C17_Witness ==
    /\ requests["r1"].at = "done"
    /\ requests["r2"].at = "done"
    /\ Len(requests["r1"].conflicts) = 2
    /\ Len(db_conflicts) = 4
    /\ AlertContent(db_conflicts[3]) = AlertContent(db_conflicts[1])
    /\ AlertContent(db_conflicts[4]) = AlertContent(db_conflicts[2])
    /\ db_conflicts[3].id # db_conflicts[1].id
    /\ Cardinality(StoredAlertIds) = 4


(***************************************************************************)
(* Claims about the pilotage step                                          *)

\* the positions of the pilotage records of a vessel that populate
\* dataSolicitacao
SolicitacaoIdxOf(id) ==
    { k \in 1..Len(praticagem_data) :
        /\ praticagem_data[k].identificadorNavio = Some(id)
        /\ TruthyStr(praticagem_data[k].dataSolicitacao) }

\* the positions of the pilotage records of a vessel with the given
\* manobraTipo that populate dataExecucao
ExecucaoIdxOf(id, tipo) ==
    { k \in 1..Len(praticagem_data) :
        /\ praticagem_data[k].identificadorNavio = Some(id)
        /\ praticagem_data[k].manobraTipo = Some(tipo)
        /\ TruthyStr(praticagem_data[k].dataExecucao) }

\* the positions of the pilotage records of a vessel that populate
\* motivoIntercorrencia
MotivoIdxOf(id) ==
    { k \in 1..Len(praticagem_data) :
        /\ praticagem_data[k].identificadorNavio = Some(id)
        /\ TruthyStr(praticagem_data[k].motivoIntercorrencia) }

\* C21: the four assignments of the pilotage step are independent.  Of every
\* returned schedule, eta.registrado is the dataSolicitacao of the last
\* pilotage record of the vessel that has one, ata the dataExecucao of the last
\* record with manobraTipo entrada that has one, atd the dataExecucao of the
\* last record with manobraTipo saida that has one, intercorrencias the
\* motivoIntercorrencia of the last record that has one; each is absent when
\* no record of the vessel populates it.
C21_PilotageFieldsIndependent ==
    Returned =>
      \A n \in 1..Len(vessel_schedules.vessels) :
         LET v   == vessel_schedules.vessels[n]
             id  == v.identificador_navio
             sol == SolicitacaoIdxOf(id)
             ent == ExecucaoIdxOf(id, "entrada")
             sai == ExecucaoIdxOf(id, "saida")
             mot == MotivoIdxOf(id)
         IN  /\ v.eta.registrado =
                   IF sol = {} THEN None
                   ELSE IsoInstant(praticagem_data[MaxOf(sol)].dataSolicitacao[1])
             /\ v.ata =
                   IF ent = {} THEN None
                   ELSE IsoInstant(praticagem_data[MaxOf(ent)].dataExecucao[1])
             /\ v.atd =
                   IF sai = {} THEN None
                   ELSE IsoInstant(praticagem_data[MaxOf(sai)].dataExecucao[1])
             /\ v.intercorrencias =
                   IF mot = {} THEN None
                   ELSE praticagem_data[MaxOf(mot)].motivoIntercorrencia

\* a record that populates everything but atd, then one that populates only
\* dataSolicitacao: eta.registrado is overwritten, ata and intercorrencias stay
C21_Witness ==
    /\ Returned
    /\ praticagem_data =
         <<PilotageOfA,
           PraticagemItem(Some("A"), Some("2025-01-01T01:00:00Z"), None, None, None)>>
    /\ Len(vessel_schedules.vessels) = 1
    /\ vessel_schedules.vessels[1].eta.registrado = Some(3600)
    /\ vessel_schedules.vessels[1].ata = Some(3600)
    /\ vessel_schedules.vessels[1].atd = None
    /\ vessel_schedules.vessels[1].intercorrencias = Some("vento")

(***************************************************************************)
(* Claims about the pairs detect_berth_conflicts compares                  *)

\* the position of the schedule of the input list that carries an identifier
PositionOf(id) == CHOOSE i \in 1..Len(schedules) : schedules[i].identificador_navio = id

\* the positions of the schedules whose window overlaps the one at position i
\* on the same terminal
OverlappingOthers(i) ==
    { j \in 1..Len(schedules) :
        /\ j # i
        /\ Participates(schedules[i]) /\ Participates(schedules[j])
        /\ schedules[i].terminal = schedules[j].terminal
        /\ schedules[i].etb.estimado[1] < schedules[j].etd.estimado[1]
        /\ schedules[j].etb.estimado[1] < schedules[i].etd.estimado[1] }

\* the alerts of `alerts` that name an identifier
AlertsNaming(alerts, id) ==
    { k \in 1..Len(alerts) :
        alerts[k].navios_conflito[1] = id \/ alerts[k].navios_conflito[2] = id }

\* the positions of the participating schedules of a terminal
ParticipantsOf(terminal) ==
    { i \in 1..Len(schedules) :
        Participates(schedules[i]) /\ schedules[i].terminal = Some(terminal) }

\* C22: within each terminal group every unordered pair of participating
\* schedules is compared exactly once: no two alerts name the same pair, a
\* terminal with n participating schedules has at most n(n-1)/2 alerts, a
\* schedule whose window overlaps k others on its terminal is named in exactly
\* k alerts, and every alert names its two vessels in the order of the input.
C22_EveryPairOnce ==
    Detected =>
      /\ \A k, m \in 1..Len(conflicts) :
            ({conflicts[k].navios_conflito[1], conflicts[k].navios_conflito[2]}
               = {conflicts[m].navios_conflito[1], conflicts[m].navios_conflito[2]})
            => k = m
      /\ \A terminal \in {"T1", "T2"} :
            LET n == Cardinality(ParticipantsOf(terminal))
            IN  2 * Cardinality({k \in 1..Len(conflicts) : conflicts[k].berco = terminal})
                  <= n * (n - 1)
      /\ \A i \in 1..Len(schedules) :
            Cardinality(AlertsNaming(conflicts, schedules[i].identificador_navio))
              = Cardinality(OverlappingOthers(i))
      /\ \A k \in 1..Len(conflicts) :
            /\ conflicts[k].navios_conflito[1] # conflicts[k].navios_conflito[2]
            /\ PositionOf(conflicts[k].navios_conflito[1])
                 < PositionOf(conflicts[k].navios_conflito[2])

\* three windows on one terminal where the first overlaps both others and
\* those two only touch: two alerts, the first schedule in both, first
C22_Witness ==
    /\ pc = "detected"
    /\ Len(schedules) = 3
    /\ \A i \in 1..3 : Participates(schedules[i]) /\ schedules[i].terminal = Some("T1")
    /\ OverlappingOthers(1) = {2, 3}
    /\ OverlappingOthers(2) = {1}
    /\ Len(conflicts) = 2
    /\ conflicts[1].navios_conflito = <<"A", "B">>
    /\ conflicts[2].navios_conflito = <<"A", "C">>

\* C23: every alert has tipo_conflito "overlap", exactly two entries in
\* navios_conflito, and as berco the terminal of both of its schedules; the
\* kinds capacity_exceeded and priority_violation are never produced.
C23_AlertShape ==
    \A alerts \in {conflicts, conflicts_perm} :
      \A k \in 1..Len(alerts) :
        /\ alerts[k].tipo_conflito = "overlap"
        /\ alerts[k].tipo_conflito \notin {"capacity_exceeded", "priority_violation"}
        /\ Len(alerts[k].navios_conflito) = 2
        /\ ScheduleOf(alerts[k].navios_conflito[1]).terminal = Some(alerts[k].berco)
        /\ ScheduleOf(alerts[k].navios_conflito[2]).terminal = Some(alerts[k].berco)

\* two identical windows on terminal T2 with a schedule of terminal T1 between
\* them: one alert, on T2, of kind overlap
C23_Witness ==
    /\ pc = "detected"
    /\ Len(schedules) = 3
    /\ schedules[1].terminal = Some("T2")
    /\ schedules[2].terminal = Some("T1")
    /\ schedules[3].terminal = Some("T2")
    /\ schedules[1].etb = schedules[3].etb /\ schedules[1].etd = schedules[3].etd
    /\ Len(conflicts) = 1
    /\ conflicts[1].berco = "T2"
    /\ conflicts[1].navios_conflito = <<"A", "C">>
    /\ conflicts[1].tipo_conflito = "overlap"

---------------------------------------------------------------------------
(* A caller that makes several calls of the three services, in any order,  *)
(* on the same arguments                                                   *)

\* longest sequence of calls
MaxCalls == 3

\* the schedule lists of such a caller
CallSchedules == AlertLists \cup { <<s>> : s \in SparseSchedules }

InitCalls ==
    /\ InitIdle
    /\ FirstSeed
    /\ \E feeds \in FeedSnapshots :
          /\ terminal_data = feeds.terminal
          /\ agencia_data = feeds.agencia
    /\ praticagem_data \in PilotageFeedsOfA
    /\ autoridade_data = <<>>
    /\ schedules \in CallSchedules
    /\ start_date = WideWindow[1]
    /\ end_date = WideWindow[2]

\* DataConsolidationService.consolidate_vessel_data(...): a static method
\* whose only variables are its parameters and the local vessels_dict
CallConsolidate ==
    /\ Len(calls) < MaxCalls
    /\ vessel_schedules' = consolidate_vessel_data(agencia_data, praticagem_data,
                                                   terminal_data, autoridade_data)
    /\ uuid_seq' = uuid_seq + vessel_schedules'.drawn
    /\ calls' = Append(calls, "consolidate_vessel_data")
    /\ UNCHANGED <<pc, terminal_data, agencia_data, praticagem_data, autoridade_data,
                   schedules, conflicts, conflicts_perm, start_date, end_date, kpis,
                   vessel_schedules_again, hash_seed, server_vars, response>>

\* ConflictDetectionService.detect_berth_conflicts(schedules): the locals
\* conflicts and berth_schedules hold references to the schedules, which the
\* code only reads
CallDetect ==
    /\ Len(calls) < MaxCalls
    /\ conflicts' = detect_berth_conflicts(schedules)
    /\ uuid_seq' = uuid_seq + Len(detect_berth_conflicts(schedules))
    /\ calls' = Append(calls, "detect_berth_conflicts")
    /\ UNCHANGED <<pc, terminal_data, agencia_data, praticagem_data, autoridade_data,
                   vessel_schedules, schedules, conflicts_perm, start_date, end_date,
                   kpis, vessel_schedules_again, hash_seed, server_vars, response>>

\* KPICalculationService.calculate_kpis(schedules, start_date, end_date)
CallKpis ==
    /\ Len(calls) < MaxCalls
    /\ kpis' = calculate_kpis(schedules, start_date, end_date)
    /\ calls' = Append(calls, "calculate_kpis")
    /\ UNCHANGED <<pc, terminal_data, agencia_data, praticagem_data, autoridade_data,
                   vessel_schedules, schedules, conflicts, conflicts_perm,
                   start_date, end_date, vessel_schedules_again, uuid_seq, hash_seed,
                   server_vars, response>>

NextCalls == CallConsolidate \/ CallDetect \/ CallKpis

SpecCalls == InitCalls /\ [][NextCalls]_vars

\* the call was made before
Called(name) == \E k \in 1..Len(calls) : calls[k] = name

\* the call the step makes
Calling(name) == calls' = Append(calls, name)

\* C24: the three operations are pure: a call leaves the feeds, every field of
\* every input schedule and the window as they were, and what it returns does
\* not depend on the calls made before it: it is what the previous call of the
\* same operation returned (apart from the generated ids, which are random).
C24_CallsArePure ==
    [][ /\ terminal_data' = terminal_data /\ agencia_data' = agencia_data
        /\ praticagem_data' = praticagem_data /\ autoridade_data' = autoridade_data
        /\ schedules' = schedules
        /\ start_date' = start_date /\ end_date' = end_date
        /\ (Calling("consolidate_vessel_data") /\ Called("consolidate_vessel_data")) =>
              /\ vessel_schedules'.raised = vessel_schedules.raised
              /\ MapSeq(WithoutId, vessel_schedules'.vessels)
                   = MapSeq(WithoutId, vessel_schedules.vessels)
        /\ (Calling("detect_berth_conflicts") /\ Called("detect_berth_conflicts")) =>
              MapSeq(WithoutId, conflicts') = MapSeq(WithoutId, conflicts)
        /\ (Calling("calculate_kpis") /\ Called("calculate_kpis")) => kpis' = kpis
      ]_vars

\* detect_berth_conflicts, consolidate_vessel_data, detect_berth_conflicts:
\* the third call returned two alerts again, with new ids
C24_Witness ==
    /\ calls = <<"detect_berth_conflicts", "consolidate_vessel_data",
                 "detect_berth_conflicts">>
    /\ Len(schedules) = 3
    /\ Len(conflicts) = 2
    /\ conflicts[1].id = 3 + vessel_schedules.drawn
    /\ ~vessel_schedules.raised
    /\ Len(vessel_schedules.vessels) = 2

(***************************************************************************)
(* Claims about what the synchronisation can detect                        *)

\* C25: consolidate_vessel_data sets neither etd.estimado nor eta.estimado,
\* so detect_berth_conflicts finds nothing in what it returns: every
\* sync_external_data pass has an empty conflict list (conflicts_detected is
\* 0) and db.conflicts stays empty.
C25_SyncDetectsNothing ==
    /\ db_conflicts = <<>>
    /\ \A r \in RequestIds :
          requests[r].handler = "sync_external_data" =>
             /\ \A k \in 1..Len(requests[r].items) :
                   /\ requests[r].items[k].etd.estimado = None
                   /\ requests[r].items[k].eta.estimado = None
             /\ Len(requests[r].conflicts) = 0

\* a finished pass over two vessels that have the same terminal and the same
\* estimated berthing instant
C25_Witness ==
    \E r \in RequestIds :
       /\ requests[r].handler = "sync_external_data"
       /\ requests[r].at = "done"
       /\ Len(requests[r].items) = 2
       /\ requests[r].items[1].terminal = requests[r].items[2].terminal
       /\ requests[r].items[1].etb.estimado = Some(3600)
       /\ requests[r].items[2].etb.estimado = Some(3600)
       /\ Len(db_vessel_schedules) = 2
       /\ db_conflicts = <<>>

\* the same on every feed of the consolidation cases: no returned schedule
\* has an estimated departure or arrival, and detection on the returned list
\* finds nothing
C25_NoAlertOnConsolidated ==
    Returned =>
      /\ \A k \in 1..Len(vessel_schedules.vessels) :
            /\ vessel_schedules.vessels[k].etd.estimado = None
            /\ vessel_schedules.vessels[k].eta.estimado = None
      /\ detect_berth_conflicts(vessel_schedules.vessels) = <<>>

(***************************************************************************)
(* Claims about the size of the overlap                                    *)

\* C26 (as claimed): every alert has tempo_overlap >= 0, whatever the list,
\* schedules whose estimated departure precedes their estimated berthing
\* included.
C26_OverlapNonNegative ==
    \A alerts \in {conflicts, conflicts_perm} :
       \A k \in 1..Len(alerts) : alerts[k].tempo_overlap >= 0

\* the window of A is inverted by a minute and lies inside the window of B:
\* the alert of the pair has tempo_overlap -1
C26_NegativeOverlap ==
    /\ pc = "detected"
    /\ Len(schedules) = 2
    /\ schedules[1].etb.estimado = Some(120) /\ schedules[1].etd.estimado = Some(60)
    /\ schedules[2].etb.estimado = Some(0) /\ schedules[2].etd.estimado = Some(240)
    /\ Len(conflicts) = 1
    /\ conflicts[1].tempo_overlap = -1

(***************************************************************************)
(* Claims about the instant that decides relevance                         *)

InWindow(o) == start_date <= o[1] /\ o[1] <= end_date

\* the first defined of ata, atb, eta.registrado, etb.estimado lies outside
\* the window
FirstDefinedOutside(s) ==
    \/ s.ata # None /\ ~InWindow(s.ata)
    \/ s.ata = None /\ s.atb # None /\ ~InWindow(s.atb)
    \/ s.ata = None /\ s.atb = None /\ s.eta.registrado # None
         /\ ~InWindow(s.eta.registrado)
    \/ s.ata = None /\ s.atb = None /\ s.eta.registrado = None
         /\ s.etb.estimado # None /\ ~InWindow(s.etb.estimado)

\* none of the four instants is defined
NoneOfFour(s) ==
    s.ata = None /\ s.atb = None /\ s.eta.registrado = None /\ s.etb.estimado = None

\* an instant after the first defined one lies inside the window
LaterInstantInside(s) ==
    \/ s.ata # None /\ \E o \in {s.atb, s.eta.registrado, s.etb.estimado} :
                          o # None /\ InWindow(o)
    \/ s.ata = None /\ s.atb # None
         /\ \E o \in {s.eta.registrado, s.etb.estimado} : o # None /\ InWindow(o)
    \/ s.ata = None /\ s.atb = None /\ s.eta.registrado # None
         /\ s.etb.estimado # None /\ InWindow(s.etb.estimado)

\* C27: one instant decides: a schedule whose first defined instant of ata,
\* atb, eta.registrado, etb.estimado lies outside [start, end] is not counted,
\* also when a later one of the four lies inside, and a schedule with none of
\* the four (one that has only eta.estimado, say) is never counted; every
\* other schedule is.
C27_FirstDefinedInstantDecides ==
    pc = "kpis" =>
       /\ kpis.total_escalas =
             Cardinality({ i \in 1..Len(schedules) :
                             ~FirstDefinedOutside(schedules[i])
                             /\ ~NoneOfFour(schedules[i]) })
       /\ (\A i \in 1..Len(schedules) :
              FirstDefinedOutside(schedules[i]) \/ NoneOfFour(schedules[i]))
          => kpis = KPIMetrics(None, None, None, start_date, end_date, 0)

\* a schedule that has only eta.estimado, inside the window, and one whose
\* arrival is a second past the window while its berthing and its estimated
\* berthing lie inside: nothing is counted
C27_Witness ==
    /\ pc = "kpis"
    /\ start_date = 3600 /\ end_date = 7200
    /\ Len(schedules) = 2
    /\ NoneOfFour(schedules[1])
    /\ schedules[1].eta.estimado = Some(5000)
    /\ schedules[2].ata = Some(7201)
    /\ schedules[2].atb = Some(7200)
    /\ schedules[2].etb.estimado = Some(3600)
    /\ FirstDefinedOutside(schedules[2]) /\ LaterInstantInside(schedules[2])
    /\ kpis.total_escalas = 0

(***************************************************************************)
(* Claims about a synchronisation that fails                               *)

\* what consolidate_vessel_data returns for the snapshots it does not fail
\* on, without the generated ids
CompleteResults ==
    { MapSeq(WithoutId, consolidate_vessel_data(f.agencia, <<>>, f.terminal, <<>>).vessels) :
        f \in { g \in FeedSnapshots :
                  ~consolidate_vessel_data(g.agencia, <<>>, g.terminal, <<>>).raised } }

\* C28: a sync_external_data request whose consolidation fails ends in the
\* error response in that very step, with both collections as they were and
\* nothing left to store; the only requests that go on to store are those
\* whose consolidation returned, and they store a complete result.
C28_FailedSyncStoresNothing ==
    [][ \A r \in RequestIds :
          /\ (requests'[r].at = "failed" /\ requests[r].at # "failed") =>
                /\ requests'[r].handler = "sync_external_data"
                /\ db_vessel_schedules' = db_vessel_schedules
                /\ db_conflicts' = db_conflicts
                /\ requests'[r].items = <<>> /\ requests'[r].conflicts = <<>>
          /\ (requests[r].at = "failed" /\ requests'[r] # requests[r]) =>
                /\ served' = served + 1
                /\ db_vessel_schedules' = db_vessel_schedules
                /\ db_conflicts' = db_conflicts
          /\ (requests'[r].handler = "sync_external_data"
                /\ requests'[r].at = "store_schedules"
                /\ requests[r].at # "store_schedules") =>
                MapSeq(WithoutId, requests'[r].items) \in CompleteResults
      ]_vars

\* a pass stored two schedules, and a later request failed on a feed whose
\* second record is malformed: the collection still has the two, and the
\* first record of the failed feed (vessel B on terminal T1) is not in it
C28_Witness ==
    /\ \E r \in RequestIds :
          requests[r].handler = "sync_external_data" /\ requests[r].at = "failed"
    /\ \A r \in RequestIds : requests[r].at \in {"failed", "done", "idle"}
    /\ Len(db_vessel_schedules) = 2
    /\ \A k \in 1..2 : db_vessel_schedules[k].terminal = Some("T2")
    /\ db_conflicts = <<>>

(***************************************************************************)
(* Claims about resolving and listing alerts                               *)

\* the step is the server's answer to a resolve request
Resolving == response'.serial = served + 1 /\ response'.handler = "resolve_conflict"

\* the step is the server's answer to a listing request
Listing == response'.serial = served + 1 /\ response'.handler = "get_conflicts"

\* the ids of a list of alerts
IdsOf(alerts) == { alerts[k].id : k \in 1..Len(alerts) }

C29_NotFound ==
    /\ response.handler = "resolve_conflict"
    /\ response.status = 404
    /\ Len(db_conflicts) >= 1
    /\ \A k \in 1..Len(db_conflicts) : ~db_conflicts[k].resolvido

(***************************************************************************)
(* Claims about the ranges of the indicators                               *)

\* a fraction <<n, d>> (d > 0) lies in [lo, hi]
FracBetween(x, lo, hi) == x[2] > 0 /\ lo * x[2] <= x[1] /\ x[1] <= hi * x[2]

\* C30: whenever they are defined, mae_eta >= 0, wb_ratio >= 0 and
\* 0 <= rcj_reliability <= 100; total_escalas is at least 0 and at most the
\* number of schedules given.
C30_IndicatorRanges ==
    pc = "kpis" =>
       /\ kpis.mae_eta # None => (kpis.mae_eta[1][2] > 0 /\ kpis.mae_eta[1][1] >= 0)
       /\ kpis.wb_ratio # None => (kpis.wb_ratio[1][2] > 0 /\ kpis.wb_ratio[1][1] >= 0)
       /\ kpis.rcj_reliability # None => FracBetween(kpis.rcj_reliability[1], 0, 100)
       /\ kpis.total_escalas >= 0
       /\ kpis.total_escalas <= Len(schedules)

\* one schedule that arrived a minute before its estimated arrival: the mean
\* absolute error is 1 minute
C30_Witness ==
    /\ pc = "kpis"
    /\ Len(schedules) = 1
    /\ schedules[1].eta.estimado = Some(3600)
    /\ schedules[1].ata = Some(3540)
    /\ kpis.mae_eta = Some(<<1, 1>>)
    /\ kpis.total_escalas = 1

\* ten berthing trials, all within the tolerance: rcj_reliability is 100
C30_AllReliable ==
    /\ pc = "kpis"
    /\ Len(schedules) = MaxRcjSchedules
    /\ kpis.rcj_reliability = Some(<<100, 1>>)

\* a list of which only a part is relevant
C30_PartRelevant ==
    /\ pc = "kpis"
    /\ kpis.total_escalas >= 1
    /\ kpis.total_escalas < Len(schedules)

===========================================================================
